---- MODULE Spec2Model ----
(***************************************************************************)
(* cwjson: an in-memory JSON document model (src/cwjson.h, src/cwjson.cpp). *)
(*                                                                         *)
(* The heap is modelled at pointer level: every Value object is a slot of  *)
(* `heap` holding the members of class Value (m_parent, m_firstChild,      *)
(* m_lastChild, m_prev, m_next, m_length, m_name) and the payload m_value   *)
(* of its subclass.  A pointer is a slot number, 0 is the null pointer.     *)
(* `delete` marks a slot as not live; operator new may hand the slot out    *)
(* again, so a dangling pointer either designates dead memory or a new,     *)
(* unrelated object.                                                       *)
(*                                                                         *)
(* Text is a sequence of byte values; std::string is a sequence of bytes.   *)
(***************************************************************************)
EXTENDS Integers, Sequences, FiniteSets, TLC

VARIABLES heap, prev, last, out, steps

vars == <<heap, prev, last, out, steps>>

\* ------------------------------------------------------------------ bounds
MaxNodes == 7
MaxSteps == 2

\* ------------------------------------------------------------- characters
\* The character literals the code compares against, by their ASCII value.
Asc ==
  [c \in {"{", "}", "[", "]", "\"", "\\", ",", ":", "-", "+", ".", "/", " ",
          "0", "1", "2", "3", "4", "5", "6", "7", "8", "9",
          "a", "b", "c", "d", "e", "f", "l", "n", "r", "s", "t", "u", "x",
          "A", "B", "C", "D", "E", "F",
          "\\b", "\\f", "\\n", "\\r", "\\t"} |->
     CASE c = "{" -> 123 [] c = "}" -> 125 [] c = "[" -> 91 [] c = "]" -> 93
       [] c = "\"" -> 34 [] c = "\\" -> 92 [] c = "," -> 44 [] c = ":" -> 58
       [] c = "-" -> 45 [] c = "+" -> 43 [] c = "." -> 46 [] c = "/" -> 47
       [] c = " " -> 32
       [] c = "0" -> 48 [] c = "1" -> 49 [] c = "2" -> 50 [] c = "3" -> 51
       [] c = "4" -> 52 [] c = "5" -> 53 [] c = "6" -> 54 [] c = "7" -> 55
       [] c = "8" -> 56 [] c = "9" -> 57
       [] c = "a" -> 97 [] c = "b" -> 98 [] c = "c" -> 99 [] c = "d" -> 100
       [] c = "e" -> 101 [] c = "f" -> 102 [] c = "l" -> 108 [] c = "n" -> 110
       [] c = "r" -> 114 [] c = "s" -> 115 [] c = "t" -> 116 [] c = "u" -> 117
       [] c = "x" -> 120
       [] c = "A" -> 65 [] c = "B" -> 66 [] c = "C" -> 67 [] c = "D" -> 68
       [] c = "E" -> 69 [] c = "F" -> 70
       [] c = "\\b" -> 8 [] c = "\\f" -> 12 [] c = "\\n" -> 10
       [] c = "\\r" -> 13 [] c = "\\t" -> 9]

\* A text written character by character, as bytes.
Txt(t) == [i \in 1..Len(t) |-> Asc[t[i]]]

\* *ptr: the byte at a cursor; the text is NUL-terminated.
Ch(json, ptr) == IF ptr \in 1..Len(json) THEN json[ptr] ELSE 0

\* ------------------------------------------------------------------- heap
Null == 0
Slots == 1..MaxNodes

\* Memory that holds no object.
Dead ==
  [live |-> FALSE, type |-> "none", m_parent |-> Null, m_firstChild |-> Null,
   m_lastChild |-> Null, m_prev |-> Null, m_next |-> Null, m_length |-> 0,
   m_name |-> <<>>, m_value |-> <<>>]

\* Value::Value() / Value::Value(std::string &name): all links null.
Fresh(type, name, value) ==
  [live |-> TRUE, type |-> type, m_parent |-> Null, m_firstChild |-> Null,
   m_lastChild |-> Null, m_prev |-> Null, m_next |-> Null, m_length |-> 0,
   m_name |-> name, m_value |-> value]

Live(h, p) == p \in Slots /\ h[p].live

FreeSlots(h) == {s \in Slots : ~h[s].live}

\* operator new: the allocator returns some memory that holds no object; which
\* one is the allocator's choice ("low" reuses the lowest address, "high" the
\* highest).  Null when the bound of the model is exhausted.
NewId(h, pol) ==
  IF FreeSlots(h) = {} THEN Null
  ELSE IF pol = "low"
       THEN CHOOSE s \in FreeSlots(h) : \A u \in FreeSlots(h) : s <= u
       ELSE CHOOSE s \in FreeSlots(h) : \A u \in FreeSlots(h) : s >= u

New(h, id, type, name, value) == [h EXCEPT ![id] = Fresh(type, name, value)]

\* p->field = v.  A store through a pointer to memory that holds no object
\* (a dangling or null pointer) changes no object.
Store(h, p, field, v) ==
  IF Live(h, p) THEN [h EXCEPT ![p][field] = v] ELSE h

\* Value::~Value: deletes every child on the m_firstChild/m_next chain, then the
\* object itself goes.  A pointer to memory that holds no object ends the walk.
RECURSIVE Delete(_, _), DeleteChain(_, _)
Delete(h, p) ==
  IF ~Live(h, p) THEN h
  ELSE LET first == h[p].m_firstChild
           h1 == [h EXCEPT ![p] = Dead]
       IN  DeleteChain(h1, first)

DeleteChain(h, it) ==
  IF ~Live(h, it) THEN h
  ELSE LET next == h[it].m_next
       IN  DeleteChain(Delete(h, it), next)

\* --------------------------------------------------- linking primitives
\* Value::insertValueInt
insertValueInt(h, this, value) ==
  LET lastc == h[this].m_lastChild
      h1 == IF lastc = Null
            THEN [h EXCEPT ![this].m_length = 1,
                           ![this].m_firstChild = value,
                           ![this].m_lastChild = value]
            ELSE LET a == Store(h, lastc, "m_next", value)
                     b == Store(a, value, "m_prev", lastc)
                 IN  [b EXCEPT ![this].m_lastChild = value,
                               ![this].m_length = @ + 1]
  IN  Store(h1, value, "m_parent", this)

\* Value::insertValueBeforeInt
insertValueBeforeInt(h, this, before, value) ==
  LET a == Store(h, value, "m_parent", this)
      b == Store(a, value, "m_prev", a[before].m_prev)
      c == Store(b, value, "m_next", before)
      d == Store(c, before, "m_prev", value)
      e == IF d[value].m_prev # Null
           THEN Store(d, d[value].m_prev, "m_next", value)
           ELSE Store(d, this, "m_firstChild", value)
  IN  [e EXCEPT ![this].m_length = @ + 1]

\* Value::swapValueInt, called on the child `this`; returns this (the caller
\* deletes it).
swapValueInt(h, this, value) ==
  LET a == Store(h, value, "m_parent", h[this].m_parent)
      b == Store(a, value, "m_next", a[this].m_next)
      c == Store(b, value, "m_prev", b[this].m_prev)
      d == IF c[this].m_prev # Null
           THEN Store(c, c[this].m_prev, "m_next", value)
           ELSE Store(c, c[this].m_parent, "m_firstChild", value)
  IN  IF d[this].m_next # Null
      THEN Store(d, d[this].m_next, "m_prev", value)
      ELSE Store(d, d[this].m_parent, "m_lastChild", value)

\* Value::removeValueInt with the bug of never moving m_lastChild: removing
\* the last child leaves m_lastChild on it.
removeValueInt_keeps_last(h, this, value) ==
  LET a == IF h[value].m_next # Null
           THEN Store(h, h[value].m_next, "m_prev", h[value].m_prev)
           ELSE h
      b == IF a[value].m_prev # Null
           THEN Store(a, a[value].m_prev, "m_next", a[value].m_next)
           ELSE Store(a, this, "m_firstChild", a[value].m_next)
  IN  [b EXCEPT ![this].m_length = @ - 1]

\* Value::removeValueInt; returns value (the caller deletes it).
removeValueInt(h, this, value) ==
  LET a == IF h[value].m_next # Null
           THEN Store(h, h[value].m_next, "m_prev", h[value].m_prev)
           ELSE Store(h, this, "m_lastChild", h[value].m_prev)
      b == IF a[value].m_prev # Null
           THEN Store(a, a[value].m_prev, "m_next", a[value].m_next)
           ELSE Store(a, this, "m_firstChild", a[value].m_next)
  IN  [b EXCEPT ![this].m_length = @ - 1]

\* ------------------------------------------------------------ bit operations
\* x >> k, x << k, x & (2^k - 1) and x | y on non-negative int values.
RECURSIVE Pow2(_)
Pow2(k) == IF k = 0 THEN 1 ELSE 2 * Pow2(k - 1)
Shr(x, k) == x \div Pow2(k)
Shl(x, k) == x * Pow2(k)
RECURSIVE BitOr(_, _)
BitOr(x, y) ==
  IF x = 0 THEN y
  ELSE IF y = 0 THEN x
  ELSE (IF x % 2 = 1 \/ y % 2 = 1 THEN 1 ELSE 0) + 2 * BitOr(x \div 2, y \div 2)
RECURSIVE BitAnd(_, _)
BitAnd(x, y) ==
  IF x = 0 \/ y = 0 THEN 0
  ELSE (IF x % 2 = 1 /\ y % 2 = 1 THEN 1 ELSE 0) + 2 * BitAnd(x \div 2, y \div 2)

\* Conversion of an int to char, as the byte it stores.
Byte(x) == x % 256

\* ----------------------------------------------------------------- doubles
\* A double is modelled where every operation the parser and the printer
\* perform can be followed exactly.  An integer of magnitude below 2^54 is
\* <<s>> \o digits, with s = 1 for a set sign bit and the decimal digits
\* without leading zeros.  A fraction is <<3 + s, n>> \o digits, the value
\* M * 2^-n with n > 0 and the decimal digits of the odd integer M < 2^53.
\* <<2>> stands for every other double (larger magnitudes, results of an
\* inexact multiplication or of 10^32 and above): the model does not follow
\* its value.
Unmodelled == <<2>>
Dbl(neg, digits) == <<IF neg THEN 1 ELSE 0>> \o digits
Digits(x) == Tail(x)
IsZero(x) == x # Unmodelled /\ Digits(x) = <<0>>

\* 2^52, 2^53 and 2^54 in decimal digits.
TwoTo52 == <<4, 5, 0, 3, 5, 9, 9, 6, 2, 7, 3, 7, 0, 4, 9, 6>>
TwoTo53 == <<9, 0, 0, 7, 1, 9, 9, 2, 5, 4, 7, 4, 0, 9, 9, 2>>
TwoTo54 == <<1, 8, 0, 1, 4, 3, 9, 8, 5, 0, 9, 4, 8, 1, 9, 8, 4>>

RECURSIVE LexLess(_, _)
LexLess(a, b) ==
  IF a = <<>> THEN FALSE
  ELSE IF Head(a) # Head(b) THEN Head(a) < Head(b)
  ELSE LexLess(Tail(a), Tail(b))
\* a < b for digit strings without leading zeros.
DigLess(a, b) == Len(a) < Len(b) \/ (Len(a) = Len(b) /\ LexLess(a, b))

\* The integers that are doubles: all below 2^53, the even ones below 2^54.
IsDouble(digits) ==
  \/ DigLess(digits, TwoTo53)
  \/ DigLess(digits, TwoTo54) /\ digits[Len(digits)] % 2 = 0

Zeros(n) == [i \in 1..n |-> 0]

\* number * 10.0 + digit on a non-negative number (src/cwjson.cpp:475, 488).
DMulAdd(x, d) ==
  IF x = Unmodelled THEN Unmodelled
  ELSE LET r == IF Digits(x) = <<0>> THEN <<d>> ELSE Append(Digits(x), d)
       IN  IF IsDouble(r) THEN <<x[1]>> \o r ELSE Unmodelled

\* sign * number (src/cwjson.cpp:515).
DSign(sign, x) ==
  IF x = Unmodelled THEN Unmodelled
  ELSE IF sign < 0 THEN <<1 - x[1]>> \o Digits(x) ELSE x

\* number *= e10 with e10 = 10^(2^k) (src/cwjson.cpp:531).
DMul(x, k) ==
  IF x = Unmodelled \/ x[1] >= 3 THEN Unmodelled
  ELSE IF IsZero(x) THEN (IF k <= 8 THEN x ELSE Unmodelled)
  ELSE LET r == Digits(x) \o Zeros(Pow2(k))
       IN  IF k <= 4 /\ IsDouble(r) THEN <<x[1]>> \o r ELSE Unmodelled

\* 2 * d and d / 2 (d even) on digit strings, and 5 * d as 10 * d / 2.
Twice(d) ==
  (IF d[1] >= 5 THEN <<1>> ELSE <<>>)
  \o [i \in 1..Len(d) |->
        (2 * d[i] + (IF i < Len(d) /\ d[i + 1] >= 5 THEN 1 ELSE 0)) % 10]
Half(d) ==
  LET h == [i \in 1..Len(d) |->
              (d[i] + (IF i > 1 /\ d[i - 1] % 2 = 1 THEN 10 ELSE 0)) \div 2]
  IN  IF Len(d) > 1 /\ h[1] = 0 THEN Tail(h) ELSE h
Times5(d) == Half(Append(d, 0))

\* Whether the digits cut off are more than half a unit of the last digit
\* kept, or exactly half with the last digit kept odd (round to nearest even).
RoundsUp(kept, rest) ==
  \/ rest[1] > 5
  \/ rest[1] = 5 /\ \E i \in 2..Len(rest) : rest[i] # 0
  \/ rest[1] = 5 /\ (\A i \in 2..Len(rest) : rest[i] = 0) /\ kept[Len(kept)] % 2 = 1

\* d + 1 on a digit string; a carry out of the first digit adds a digit.
RECURSIVE Inc(_)
Inc(d) ==
  IF d = <<>> THEN <<1>>
  ELSE IF d[Len(d)] < 9 THEN [d EXCEPT ![Len(d)] = @ + 1]
  ELSE Append(Inc(SubSeq(d, 1, Len(d) - 1)), 0)

\* The fractions.
IsFrac(x) == x[1] >= 3
Mant(x) == SubSeq(x, 3, Len(x))

\* The double m * 2^-n in its representation: m is halved while it is even.
RECURSIVE Normal(_, _, _)
Normal(neg, m, n) ==
  IF n = 0 THEN Dbl(neg, m)
  ELSE IF m[Len(m)] % 2 = 0 THEN Normal(neg, Half(m), n - 1)
  ELSE <<IF neg THEN 4 ELSE 3, n>> \o m

\* The IEEE quotient (a * 2^-n) / 10^z, rounded to nearest even: a is doubled
\* until the integer part of a / 10^z has 53 bits, and the z digits cut off
\* decide the rounding.  a / 10^z is below 2^52 at the start.
RECURSIVE Quotient(_, _, _, _)
Quotient(neg, a, n, z) ==
  IF Len(a) > z /\ ~DigLess(SubSeq(a, 1, Len(a) - z), TwoTo52)
  THEN Normal(neg,
              IF RoundsUp(SubSeq(a, 1, Len(a) - z), SubSeq(a, Len(a) - z + 1, Len(a)))
              THEN Inc(SubSeq(a, 1, Len(a) - z))
              ELSE SubSeq(a, 1, Len(a) - z),
              n)
  ELSE Quotient(neg, Twice(a), n + 1, z)

\* number /= e10 with e10 = 10^(2^k) (src/cwjson.cpp:529): exact when the
\* integer ends in that many zeros, else the rounded quotient; 10^32 and the
\* powers above it are not powers of ten as doubles.
DDiv(x, k) ==
  IF x = Unmodelled THEN Unmodelled
  ELSE IF IsZero(x) THEN x
  ELSE IF k > 4 THEN Unmodelled
  ELSE IF IsFrac(x) THEN Quotient(x[1] = 4, Mant(x), x[2], Pow2(k))
  ELSE LET n == Len(Digits(x))
           z == Pow2(k)
       IN  IF n > z /\ \A i \in (n - z + 1)..n : Digits(x)[i] = 0
           THEN <<x[1]>> \o SubSeq(Digits(x), 1, n - z)
           ELSE Quotient(x[1] = 1, Digits(x), 0, z)

\* ------------------------------------------------------------------ parser
\* Root::whitespace
RECURSIVE whitespace(_, _)
whitespace(json, ptr) ==
  IF Ch(json, ptr) \in {32, 9, 10, 13} THEN whitespace(json, ptr + 1) ELSE ptr

\* Root::skip
skip(ptr, count) == ptr + count

\* Root::isDigit
isDigit(digit) == digit >= Asc["0"] /\ digit <= Asc["9"]

\* The bytes json[a..b]; std::string::append(start, ptr - start).
Bytes(json, a, b) == [i \in 1..(b - a + 1) |-> Ch(json, a + i - 1)]

\* strncmp(ptr, lit, n) == 0
Match(json, ptr, lit) == \A i \in 1..Len(lit) : Ch(json, ptr + i - 1) = lit[i]

\* Root::parse_unicode: four hex digits into a code unit.
RECURSIVE parse_unicode_loop(_, _, _, _)
parse_unicode_loop(json, ptr, i, value) ==
  IF i >= 4 THEN [value |-> value, ptr |-> ptr, err |-> ""]
  ELSE LET hex == Ch(json, ptr)
       IN  IF hex >= Asc["0"] /\ hex <= Asc["9"]
           THEN parse_unicode_loop(json, skip(ptr, 1), i + 1,
                                   Shl(value, 4) + (hex - Asc["0"]))
           ELSE IF hex >= Asc["a"] /\ hex <= Asc["f"]
           THEN parse_unicode_loop(json, skip(ptr, 1), i + 1,
                                   Shl(value, 4) + (hex - Asc["a"] + 10))
           ELSE IF hex >= Asc["A"] /\ hex <= Asc["F"]
           THEN parse_unicode_loop(json, skip(ptr, 1), i + 1,
                                   Shl(value, 4) + (hex - Asc["A"] + 10))
           ELSE [value |-> value, ptr |-> ptr, err |-> "bad escaped character"]

parse_unicode(json, ptr) == parse_unicode_loop(json, ptr, 0, 0)

\* The UTF-8 bytes appended for a code point (src/cwjson.cpp:611-637).
RECURSIVE Utf8Tail(_, _)
Utf8Tail(unicode, i) ==
  IF i > 1
  THEN <<Byte(BitOr(128, BitAnd(Shr(unicode, (i - 2) * 6), 63)))>>
       \o Utf8Tail(unicode, i - 1)
  ELSE <<>>

\* An encoder that knows no 4-byte form.
Utf8_three_bytes(unicode) ==
  IF unicode < 128 THEN <<Byte(unicode)>>
  ELSE IF unicode < 2048
  THEN <<Byte(BitOr(192, Shr(unicode, 6)))>> \o Utf8Tail(unicode, 2)
  ELSE <<Byte(BitOr(224, Shr(unicode, 12)))>> \o Utf8Tail(unicode, 3)
Utf8(unicode) ==
  IF unicode < 128 THEN <<Byte(unicode)>>
  ELSE IF unicode < 2048
  THEN <<Byte(BitOr(192, Shr(unicode, 6)))>> \o Utf8Tail(unicode, 2)
  ELSE IF unicode < 65536
  THEN <<Byte(BitOr(224, Shr(unicode, 12)))>> \o Utf8Tail(unicode, 3)
  ELSE <<Byte(BitOr(240, Shr(unicode, 18)))>> \o Utf8Tail(unicode, 4)

\* case 'u' of Root::parse_string (src/cwjson.cpp:594-638).  u1 and u2 are
\* the results of the two parse_unicode calls; Utf8 is the byte sequence the
\* code appends.
parse_escape_fail(p, e) == [value |-> <<>>, ptr |-> p, err |-> e]

parse_escape_low(u1, u2) ==
  IF u2.err # "" THEN parse_escape_fail(u2.ptr, u2.err)
  ELSE [value |-> Utf8(65536 + BitOr(Shl(BitAnd(u1.value, 1023), 10),
                                     BitAnd(u2.value, 1023))),
        ptr |-> u2.ptr, err |-> ""]

parse_escape_high(json, u1) ==
  IF u1.err # "" THEN parse_escape_fail(u1.ptr, u1.err)
  ELSE IF (u1.value >= 56320 /\ u1.value <= 57343) \/ u1.value = 0
  THEN parse_escape_fail(u1.ptr, "bad unicode character")
  ELSE IF u1.value >= 55296 /\ u1.value <= 56319
  THEN IF Ch(json, u1.ptr) # Asc["\\"]
       THEN parse_escape_fail(u1.ptr, "expected second unicode surrogate part")
       ELSE IF Ch(json, skip(u1.ptr, 1)) # Asc["u"]
       THEN parse_escape_fail(skip(u1.ptr, 1),
                              "expected second unicode surrogate part")
       ELSE parse_escape_low(u1, parse_unicode(json, skip(u1.ptr, 2)))
  ELSE [value |-> Utf8(u1.value), ptr |-> u1.ptr, err |-> ""]

parse_escape_u(json, ptr0) == parse_escape_high(json, parse_unicode(json, ptr0))

\* The while loop of Root::parse_string and what follows it.
RECURSIVE parse_string_loop(_, _, _, _)

\* The flushed run json[start..ptr-1] appended to value (src/cwjson.cpp:558-559,
\* 648-649).
parse_string_flush(json, ptr, start, value) ==
  IF ptr # start THEN value \o Bytes(json, start, ptr - 1) ELSE value

\* After a \u escape: the error is passed on, or the loop goes on behind it.
parse_string_after_u(json, v1, u) ==
  IF u.err # "" THEN [value |-> v1, ptr |-> u.ptr, err |-> u.err]
  ELSE parse_string_loop(json, u.ptr, u.ptr, v1 \o u.value)

\* The switch on the character e behind a backslash at p1 - 1.
parse_string_escape(json, v1, p1, e) ==
  CASE e = Asc["b"] -> parse_string_loop(json, skip(p1, 1), skip(p1, 1), Append(v1, Asc["\\b"]))
    [] e = Asc["f"] -> parse_string_loop(json, skip(p1, 1), skip(p1, 1), Append(v1, Asc["\\f"]))
    [] e = Asc["n"] -> parse_string_loop(json, skip(p1, 1), skip(p1, 1), Append(v1, Asc["\\n"]))
    [] e = Asc["r"] -> parse_string_loop(json, skip(p1, 1), skip(p1, 1), Append(v1, Asc["\\r"]))
    [] e = Asc["t"] -> parse_string_loop(json, skip(p1, 1), skip(p1, 1), Append(v1, Asc["\\t"]))
    [] e = Asc["u"] -> parse_string_after_u(json, v1, parse_escape_u(json, skip(p1, 1)))
    [] OTHER -> parse_string_loop(json, skip(p1, 1), skip(p1, 1), Append(v1, e))

parse_string_loop(json, ptr, start, value) ==
  IF Ch(json, ptr) = Asc["\""] \/ Ch(json, ptr) = 0
  THEN [value |-> parse_string_flush(json, ptr, start, value),
        ptr |-> IF Ch(json, ptr) = 0 THEN ptr ELSE skip(ptr, 1),
        err |-> ""]
  ELSE IF Ch(json, ptr) # Asc["\\"]
  THEN parse_string_loop(json, skip(ptr, 1), start, value)
  ELSE parse_string_escape(json, parse_string_flush(json, ptr, start, value),
                           skip(ptr, 1), Ch(json, skip(ptr, 1)))

\* Root::parse_string
parse_string(json, ptr0) ==
  IF Ch(json, skip(ptr0, 1)) = Asc["\""]
  THEN [value |-> <<>>, ptr |-> skip(ptr0, 2), err |-> ""]
  ELSE parse_string_loop(json, skip(ptr0, 1), skip(ptr0, 1), <<>>)

\* A run of digits accumulated into number (src/cwjson.cpp:473-477, 486-491);
\* count is the number of digits consumed.
RECURSIVE digit_run(_, _, _, _)
digit_run(json, ptr, number, count) ==
  IF isDigit(Ch(json, ptr))
  THEN digit_run(json, skip(ptr, 1), DMulAdd(number, Ch(json, ptr) - Asc["0"]),
                 count + 1)
  ELSE [number |-> number, ptr |-> ptr, count |-> count]

\* The exponent digits accumulated into the int exp (src/cwjson.cpp:508-512).
RECURSIVE exp_run(_, _, _)
exp_run(json, ptr, exp) ==
  IF isDigit(Ch(json, ptr))
  THEN exp_run(json, skip(ptr, 1), exp * 10 + (Ch(json, ptr) - Asc["0"]))
  ELSE [exp |-> exp, ptr |-> ptr]

\* The scaling loop (src/cwjson.cpp:524-536); e10 = 10^(2^k) in round k.
RECURSIVE scale(_, _, _, _)
scale(number, exp, e, k) ==
  IF e = 0 THEN number
  ELSE scale(IF e % 2 = 1
             THEN (IF exp < 0 THEN DDiv(number, k) ELSE DMul(number, k))
             ELSE number,
             exp, e \div 2, k + 1)

\* Root::parse_number, in the order of the code: sign and integer part
\* (src/cwjson.cpp:459-478), fraction (480-492), exponent (494-513), scaling
\* (515-540).  ip, fp and ep are the accumulator after each part.
parse_number_fail(p, e) == [value |-> Unmodelled, ptr |-> p, err |-> e]

parse_number_scale(sign, expSign, fp, ep) ==
  LET exp == ep.exp * expSign - fp.count
  IN  [value |-> scale(DSign(sign, fp.number), exp,
                       IF exp < 0 THEN -exp ELSE exp, 0),
       ptr |-> ep.ptr, err |-> ""]

parse_number_exponent(json, sign, fp) ==
  LET hasE == Ch(json, fp.ptr) \in {Asc["e"], Asc["E"]}
      p2 == skip(fp.ptr, 1)
      expSign == IF hasE /\ Ch(json, p2) = Asc["-"] THEN -1 ELSE 1
      p3 == IF Ch(json, p2) \in {Asc["-"], Asc["+"]} THEN skip(p2, 1) ELSE p2
  IN  IF hasE /\ ~isDigit(Ch(json, p3))
      THEN parse_number_fail(p3, "expected digit after 'e' or 'E'")
      ELSE parse_number_scale(sign, expSign, fp,
                              IF hasE THEN exp_run(json, p3, 0)
                              ELSE [exp |-> 0, ptr |-> fp.ptr])

parse_number_fraction(json, sign, ip) ==
  LET dot == Ch(json, ip.ptr) = Asc["."]
  IN  IF dot /\ ~isDigit(Ch(json, skip(ip.ptr, 1)))
      THEN parse_number_fail(skip(ip.ptr, 1), "expected digit after '.'")
      ELSE parse_number_exponent(json, sign,
             IF dot THEN digit_run(json, skip(ip.ptr, 1), ip.number, 0)
             ELSE [number |-> ip.number, ptr |-> ip.ptr, count |-> 0])

parse_number_int(json, sign, p1) ==
  IF Ch(json, p1) = Asc["0"] /\ isDigit(Ch(json, skip(p1, 1)))
  THEN parse_number_fail(skip(p1, 1), "leading zeros are not allowed")
  ELSE parse_number_fraction(json, sign,
         IF Ch(json, p1) = Asc["0"]
         THEN [number |-> Dbl(FALSE, <<0>>), ptr |-> skip(p1, 1), count |-> 0]
         ELSE digit_run(json, p1, Dbl(FALSE, <<0>>), 0))

parse_number(json, ptr0) ==
  LET minus == Ch(json, ptr0) = Asc["-"]
  IN  parse_number_int(json, IF minus THEN -1 ELSE 1,
                       IF minus THEN skip(ptr0, 1) ELSE ptr0)

\* Root::parse_value with its object and array loops.  The result is the heap
\* as the call leaves it, the cursor and the message of the JsonError thrown
\* ("" when none); whatever was linked before a throw stays linked.
Res(h, ptr, err) == [h |-> h, ptr |-> ptr, err |-> err]

RECURSIVE parse_value(_, _, _, _, _, _), parse_members(_, _, _, _, _),
          parse_elements(_, _, _, _, _)

\* A leaf allocated and appended to parent.
parse_leaf(h, parent, type, name, value, ptr, pol) ==
  IF NewId(h, pol) = Null THEN Res(h, ptr, "std::bad_alloc")
  ELSE Res(insertValueInt(New(h, NewId(h, pol), type, name, value), parent,
                          NewId(h, pol)),
           ptr, "")

\* case '"' and the number case: the scanned token s becomes a leaf, or its
\* error is passed on.
parse_token(h, parent, type, name, s, pol) ==
  IF s.err # "" THEN Res(h, s.ptr, s.err)
  ELSE parse_leaf(h, parent, type, name, s.value, s.ptr, pol)

\* case '{' (src/cwjson.cpp:319-357): id is the new Object, p1 the cursor
\* behind the brace and the whitespace after it.
parse_object(h, parent, name, json, ptr, pol, id, p1) ==
  IF id = Null THEN Res(h, ptr, "std::bad_alloc")
  ELSE IF Ch(json, p1) = Asc["}"]
  THEN Res(insertValueInt(New(h, id, "Object", name, <<>>), parent, id),
           skip(p1, 1), "")
  ELSE parse_members(insertValueInt(New(h, id, "Object", name, <<>>), parent, id),
                     id, json, p1, pol)

\* case '[' (src/cwjson.cpp:359-390)
parse_array(h, parent, name, json, ptr, pol, id, p1) ==
  IF id = Null THEN Res(h, ptr, "std::bad_alloc")
  ELSE IF Ch(json, p1) = Asc["]"]
  THEN Res(insertValueInt(New(h, id, "Array", name, <<>>), parent, id),
           skip(p1, 1), "")
  ELSE parse_elements(insertValueInt(New(h, id, "Array", name, <<>>), parent, id),
                      id, json, p1, pol)

\* The switch of Root::parse_value on the character c at ptr.
parse_switch(h, parent, name, json, ptr, pol, c) ==
  CASE c = Asc["{"] ->
         parse_object(h, parent, name, json, ptr, pol, NewId(h, pol),
                      whitespace(json, skip(ptr, 1)))
    [] c = Asc["["] ->
         parse_array(h, parent, name, json, ptr, pol, NewId(h, pol),
                     whitespace(json, skip(ptr, 1)))
    [] c = Asc["\""] ->
         parse_token(h, parent, "String", name, parse_string(json, ptr), pol)
    [] c = Asc["t"] /\ Match(json, ptr, Txt(<<"t", "r", "u", "e">>)) ->
         parse_leaf(h, parent, "Boolean", name, <<1>>, skip(ptr, 4), pol)
    [] c = Asc["f"] /\ Match(json, ptr, Txt(<<"f", "a", "l", "s", "e">>)) ->
         parse_leaf(h, parent, "Boolean", name, <<0>>, skip(ptr, 5), pol)
    [] c = Asc["n"] /\ Match(json, ptr, Txt(<<"n", "u", "l", "l">>)) ->
         parse_leaf(h, parent, "Null", name, <<>>, skip(ptr, 4), pol)
    [] c = Asc["-"] \/ isDigit(c) ->
         parse_token(h, parent, "Number", name, parse_number(json, ptr), pol)
    [] OTHER -> Res(h, ptr, "unexpected character")

parse_value(h, parent, name, json, ptr0, pol) ==
  parse_switch(h, parent, name, json, whitespace(json, ptr0), pol,
               Ch(json, whitespace(json, ptr0)))

\* After an element v of a container closed by the character close: the next
\* round on ',', the end on close, an error otherwise
\* (src/cwjson.cpp:345-354, 378-387).
parse_after(v, object, json, pol, close, isObject) ==
  LET p2 == whitespace(json, v.ptr)
  IN  IF v.err # "" THEN v
      ELSE IF Ch(json, p2) = Asc[","]
      THEN IF isObject THEN parse_members(v.h, object, json, skip(p2, 1), pol)
           ELSE parse_elements(v.h, object, json, skip(p2, 1), pol)
      ELSE IF Ch(json, p2) = close THEN Res(v.h, skip(p2, 1), "")
      ELSE Res(v.h, p2, IF isObject THEN "expected '}' or ',' after object element"
                        ELSE "expected ']' or ',' after array element")

\* One round of the while (1) loop of case '{' (src/cwjson.cpp:329-355): k is
\* the parsed key.
parse_member(h, object, json, pol, k) ==
  LET p1 == whitespace(json, k.ptr)
  IN
  IF k.err # "" THEN Res(h, k.ptr, k.err)
  ELSE IF Ch(json, p1) # Asc[":"]
  THEN Res(h, p1, "expected ':' before object value")
  ELSE parse_after(parse_value(h, object, k.value, json, skip(p1, 1), pol),
                   object, json, pol, Asc["}"], TRUE)

parse_members(h, object, json, ptr0, pol) ==
  parse_member(h, object, json, pol, parse_string(json, whitespace(json, ptr0)))

\* One round of the while (1) loop of case '[' (src/cwjson.cpp:369-388).
parse_elements(h, array, json, ptr0, pol) ==
  parse_after(parse_value(h, array, <<>>, json, ptr0, pol),
              array, json, pol, Asc["]"], FALSE)

\* Root::parse
parse(h, this, json, pol) ==
  parse_value([(IF h[this].m_firstChild # Null
                THEN Delete(h, h[this].m_firstChild) ELSE h)
                 EXCEPT ![this].m_firstChild = Null],
              this, <<>>, json, 1, pol)

\* ------------------------------------------------- typed accessor layer
\* The result of a call: the heap it leaves, the message of the exception it
\* threw ("" when none) and the pointer it returned.  "fault" stands for a call
\* that does not return: a loop that never ends or a fault.
Ret(h, err, ret) == [h |-> h, err |-> err, ret |-> ret]

\* The pointers a loop  for (it = m_firstChild; it; it = it->m_next)  visits.
\* The walk ends with -1 when it runs into memory that holds no object or
\* never reaches a null m_next.
RECURSIVE Chain(_, _, _)
Chain(h, it, fuel) ==
  IF it = Null THEN <<>>
  ELSE IF ~Live(h, it) \/ fuel = 0 THEN <<-1>>
  ELSE <<it>> \o Chain(h, h[it].m_next, fuel - 1)

Walk(h, this) == Chain(h, h[this].m_firstChild, MaxNodes)

Min(S) == CHOOSE x \in S : \A y \in S : x <= y

\* Value::setName
setName(h, value, name) == Store(h, value, "m_name", name)

\* Where the loops of Object::getValue / linkValue / removeValue stop: the
\* index in Walk of the first child named name, 0 when the walk ends without.
FindName(h, this, name) ==
  LET w == Walk(h, this)
      hits == {i \in 1..Len(w) : w[i] = -1 \/ h[w[i]].m_name = name}
  IN  IF hits = {} THEN 0 ELSE Min(hits)

\* Where the loops  if (i++ >= idx)  of Array::getValue / linkValueInt /
\* removeValue stop: the index in Walk of the first child reached with
\* i >= idx, 0 when the walk ends without.
FindIndex(h, this, idx) ==
  LET w == Walk(h, this)
      hits == {i \in 1..Len(w) : w[i] = -1 \/ i - 1 >= idx}
  IN  IF hits = {} THEN 0 ELSE Min(hits)

\* Object::getValue
Object_getValue(h, this, name) ==
  LET i == FindName(h, this, name)
  IN  IF i = 0 THEN Ret(h, "value not found", Null)
      ELSE IF Walk(h, this)[i] = -1 THEN Ret(h, "fault", Null)
      ELSE Ret(h, "", Walk(h, this)[i])

\* Value::toObject, toArray, toNumber, ... : the narrowing conversions.
narrow(h, value, type) ==
  IF h[value].type = type THEN Ret(h, "", value)
  ELSE Ret(h, "value is not of the type", Null)

\* Object::getObject, getArray, getString, getNumber, getBoolean
Object_getTyped(h, this, name, type) ==
  LET r == Object_getValue(h, this, name)
  IN  IF r.err # "" THEN r ELSE narrow(h, r.ret, type)

\* Object::linkValue with the bug of moving a replaced member to the end:
\* the old child is removed and the new one appended.
Object_linkValue_moves(h, this, name, value) ==
  IF value = Null THEN Ret(h, "", Null)
  ELSE LET i == FindName(h, this, name)
           it == Walk(h, this)[i]
           h1 == IF i = 0 THEN h ELSE Delete(removeValueInt(h, this, it), it)
       IN  IF i # 0 /\ it = -1 THEN Ret(h, "fault", Null)
           ELSE Ret(insertValueInt(setName(h1, value, name), this, value), "", value)

\* Object::linkValue.  The JsonError of line 121 is constructed and dropped,
\* not thrown: the call goes on with a linked value.
Object_linkValue(h, this, name, value) ==
  IF value = Null THEN Ret(h, "", Null)
  ELSE LET i == FindName(h, this, name)
           it == Walk(h, this)[i]
       IN  IF i = 0
           THEN Ret(insertValueInt(setName(h, value, name), this, value), "", value)
           ELSE IF it = -1 THEN Ret(h, "fault", Null)
           ELSE Ret(Delete(swapValueInt(setName(h, value, name), it, value), it),
                    "", value)

\* Object::linkValueSafe
Object_linkValueSafe(h, this, name, value) == Object_linkValue(h, this, name, value)

\* Object::removeValue
Object_removeValue(h, this, name) ==
  LET i == FindName(h, this, name)
      it == Walk(h, this)[i]
  IN  IF i = 0 THEN Ret(h, "", Null)
      ELSE IF it = -1 THEN Ret(h, "fault", Null)
      ELSE Ret(Delete(removeValueInt(h, this, it), it), "", Null)

\* Array::getValue
Array_getValue(h, this, idx) ==
  LET i == FindIndex(h, this, idx)
  IN  IF i = 0 THEN Ret(h, "index out of range", Null)
      ELSE IF Walk(h, this)[i] = -1 THEN Ret(h, "fault", Null)
      ELSE Ret(h, "", Walk(h, this)[i])

\* Array::getObject, getArray, getString, getNumber, getBoolean
Array_getTyped(h, this, idx, type) ==
  LET r == Array_getValue(h, this, idx)
  IN  IF r.err # "" THEN r ELSE narrow(h, r.ret, type)

\* Array::linkValueInt with the bug of falling through to the append when the
\* position is not found, before it throws.
Array_linkValueInt_appends(h, this, value, position, where) ==
  IF value = Null THEN Ret(h, "", Null)
  ELSE IF where = 0 THEN Ret(insertValueInt(h, this, value), "", value)
  ELSE LET i == FindIndex(h, this, position)
           it == Walk(h, this)[i]
       IN  IF i = 0 THEN Ret(insertValueInt(h, this, value), "index out of range", Null)
           ELSE IF it = -1 THEN Ret(h, "fault", Null)
           ELSE IF where = 1
           THEN Ret(insertValueBeforeInt(h, this, it, value), "", value)
           ELSE Ret(Delete(swapValueInt(h, it, value), it), "", value)

\* Array::linkValueInt; where: 0 back, 1 before position, 2 at position.  The
\* JsonError of line 218 is constructed and dropped, not thrown.
Array_linkValueInt(h, this, value, position, where) ==
  IF value = Null THEN Ret(h, "", Null)
  ELSE IF where = 0 THEN Ret(insertValueInt(h, this, value), "", value)
  ELSE LET i == FindIndex(h, this, position)
           it == Walk(h, this)[i]
       IN  IF i = 0 THEN Ret(h, "index out of range", Null)
           ELSE IF it = -1 THEN Ret(h, "fault", Null)
           ELSE IF where = 1
           THEN Ret(insertValueBeforeInt(h, this, it, value), "", value)
           ELSE Ret(Delete(swapValueInt(h, it, value), it), "", value)

\* Array::linkValueSafe: the auto_ptr deletes value when linkValueInt throws.
Array_linkValueSafe(h, this, value, position, where) ==
  LET r == Array_linkValueInt(h, this, value, position, where)
  IN  IF r.err \notin {"", "fault"} THEN Ret(Delete(r.h, value), r.err, Null)
      ELSE r

\* Array::removeValue
Array_removeValue(h, this, position) ==
  LET i == FindIndex(h, this, position)
      it == Walk(h, this)[i]
  IN  IF i = 0 THEN Ret(h, "index out of range", Null)
      ELSE IF it = -1 THEN Ret(h, "fault", Null)
      ELSE Ret(Delete(removeValueInt(h, this, it), it), "", Null)

\* Root::getObject, Root::getArray
Root_getTyped(h, this, type) ==
  IF h[this].m_firstChild = Null \/ h[h[this].m_firstChild].type # type
  THEN Ret(h, "value is not of the type", Null)
  ELSE Ret(h, "", h[this].m_firstChild)

\* Root::linkValue
Root_linkValue(h, this, value) ==
  LET h1 == IF h[this].m_firstChild # Null THEN Delete(h, h[this].m_firstChild)
            ELSE h
  IN  Ret([h1 EXCEPT ![this].m_firstChild = value], "", value)

\* new T(...) by the caller or inside a create/set/push helper: the result is
\* the heap with the unlinked object and its pointer.
Make(h, type, value, pol) ==
  LET id == NewId(h, pol)
  IN  IF id = Null THEN Ret(h, "std::bad_alloc", Null)
      ELSE Ret(New(h, id, type, <<>>, value), "", id)

\* Number::clone, String::clone, Boolean::clone, Null::clone, Object::clone,
\* Array::clone, Root::clone: the copy is a new object built by the public
\* constructor, so without a name; Object::clone names the copies of its
\* children; Root::clone installs the copy of its value as Root::linkValue does.
RECURSIVE clone(_, _, _), clone_children(_, _, _, _, _)
clone(h, this, pol) ==
  LET m == Make(h, h[this].type, h[this].m_value, pol)
  IN  IF m.err # "" THEN m
      ELSE IF h[this].type = "Root"
      THEN IF h[this].m_firstChild = Null THEN m
           ELSE LET c == clone(m.h, h[this].m_firstChild, pol)
                IN  IF c.err # "" THEN c
                    ELSE Ret([c.h EXCEPT ![m.ret].m_firstChild = c.ret], "", m.ret)
      ELSE IF h[this].type \in {"Object", "Array"}
      THEN clone_children(m.h, m.ret, h[this].m_firstChild,
                          h[this].type = "Object", pol)
      ELSE m

\* A loop that never names the copies: what Object::clone would be without its
\* setName call.
clone_children_unnamed(h, ptr, it, named, pol) ==
  IF it = Null THEN Ret(h, "", ptr)
  ELSE LET c == clone(h, it, pol)
       IN  IF c.err # "" THEN Ret(c.h, c.err, Null)
           ELSE clone_children(insertValueInt(c.h, ptr, c.ret), ptr,
                               h[it].m_next, named, pol)

\* The while loop of Object::clone (named = TRUE) and Array::clone.
clone_children(h, ptr, it, named, pol) ==
  IF it = Null THEN Ret(h, "", ptr)
  ELSE LET c == clone(h, it, pol)
           h1 == IF named THEN setName(c.h, c.ret, h[it].m_name) ELSE c.h
       IN  IF c.err # "" THEN Ret(c.h, c.err, Null)
           ELSE clone_children(insertValueInt(h1, ptr, c.ret), ptr,
                               h[it].m_next, named, pol)

\* Object::setValue
Object_setValue(h, this, name, value, pol) ==
  LET c == clone(h, value, pol)
  IN  IF c.err # "" THEN c ELSE Object_linkValueSafe(c.h, this, name, c.ret)

\* Object::setNumber, setString, setBoolean, setNull, createObject, createArray
Object_setNew(h, this, name, type, value, pol) ==
  LET m == Make(h, type, value, pol)
  IN  IF m.err # "" THEN m ELSE Object_linkValueSafe(m.h, this, name, m.ret)

\* Array::pushValue, insertValue, setValue
Array_putValue(h, this, value, position, where, pol) ==
  LET c == clone(h, value, pol)
  IN  IF c.err # "" THEN c
      ELSE Array_linkValueSafe(c.h, this, c.ret, position, where)

\* Array::push*, insert*, set* of a new Number, String, Boolean, Null, Object
\* or Array.
Array_putNew(h, this, type, value, position, where, pol) ==
  LET m == Make(h, type, value, pol)
  IN  IF m.err # "" THEN m
      ELSE Array_linkValueSafe(m.h, this, m.ret, position, where)

\* Root::setValue
Root_setValue(h, this, value, pol) ==
  LET c == clone(h, value, pol)
  IN  IF c.err # "" THEN c ELSE Root_linkValue(c.h, this, c.ret)

\* Root::createRootObject, Root::createRootArray
Root_createRoot(h, this, type, pol) ==
  LET m == Make(h, type, <<>>, pol)
  IN  IF m.err # "" THEN m ELSE Root_linkValue(m.h, this, m.ret)

\* ----------------------------------------------------------------- printer
\* The Printer: m_out is the text written to the stream so far, m_depth and
\* m_format its fields.
Printer(format) == [m_out |-> <<>>, m_depth |-> 0, m_format |-> format]

\* m_out << t
Put(p, t) == [p EXCEPT !.m_out = @ \o t]

\* The arguments of setFormating in Root::print (src/cwjson.h:529).
m_tab == Txt(<<" ", " ", " ">>)
m_lineBreak == Txt(<<"\\n">>)

\* Printer::printIndent
RECURSIVE Tabs(_)
Tabs(n) == IF n <= 0 THEN <<>> ELSE m_tab \o Tabs(n - 1)
printIndent(p) == IF p.m_format THEN Put(p, Tabs(p.m_depth)) ELSE p

\* Printer::printLineBreak
printLineBreak(p) == IF p.m_format THEN Put(p, m_lineBreak) ELSE p

\* Printer::printSeparator, and the same lines at the head of Printer::enter.
printSeparator(p, h, value) ==
  printIndent(IF h[value].m_prev # Null
              THEN printLineBreak(Put(p, Txt(<<",">>))) ELSE p)

\* The escape written for a character the loop does not pass through.
Hex == Txt(<<"0", "1", "2", "3", "4", "5", "6", "7", "8", "9",
             "a", "b", "c", "d", "e", "f">>)
printEscape(c) ==
  CASE c = Asc["\\"] -> Txt(<<"\\", "\\">>)
    [] c = Asc["\""] -> Txt(<<"\\", "\"">>)
    [] c = Asc["\\b"] -> Txt(<<"\\", "b">>)
    [] c = Asc["\\f"] -> Txt(<<"\\", "f">>)
    [] c = Asc["\\n"] -> Txt(<<"\\", "n">>)
    [] c = Asc["\\r"] -> Txt(<<"\\", "r">>)
    [] c = Asc["\\t"] -> Txt(<<"\\", "t">>)
    [] OTHER -> Txt(<<"\\", "u", "0", "0">>)
                \o <<Hex[Shr(c, 4) + 1], Hex[BitAnd(c, 15) + 1]>>

\* m_out.write(str, ptr - str) when ptr != str
printRun(written, value, str, ptr) ==
  IF ptr # str THEN written \o Bytes(value, str, ptr - 1) ELSE written

\* The while (*ptr) loop of Printer::printEscapedString and the write after it.
RECURSIVE printEscapedLoop(_, _, _, _)
printEscapedLoop(written, value, str, ptr) ==
  LET c == Ch(value, ptr)
  IN  IF c = 0 THEN printRun(written, value, str, ptr)
      ELSE IF c > 31 /\ c # Asc["\""] /\ c # Asc["\\"]
      THEN printEscapedLoop(written, value, str, ptr + 1)
      ELSE printEscapedLoop(printRun(written, value, str, ptr) \o printEscape(c),
                            value, ptr + 1, ptr + 1)

\* Printer::printEscapedString
printEscapedString(p, value) ==
  Put(p, Txt(<<"\"">>) \o printEscapedLoop(<<>>, value, 1, 1) \o Txt(<<"\"">>))

\* Printer::printName
printName(p, h, value) ==
  IF h[value].m_parent # Null /\ h[h[value].m_parent].type = "Object"
  THEN Put(printEscapedString(p, h[value].m_name),
           IF p.m_format THEN Txt(<<" ", ":", " ">>) ELSE Txt(<<":">>))
  ELSE p

\* std::setprecision(std::numeric_limits<double>::digits10 + 1)
Precision == 16

\* A run of decimal digits as characters.
DigitChars(d) == [i \in 1..Len(d) |-> Asc["0"] + d[i]]

\* The digit string without its trailing zeros, its first digit kept.
RECURSIVE Strip(_)
Strip(d) ==
  IF Len(d) > 1 /\ d[Len(d)] = 0 THEN Strip(SubSeq(d, 1, Len(d) - 1)) ELSE d

\* The mantissa m with exponent x in the %e style of %g: d[.ddd]e+xx.
Scientific(m, x) ==
  <<Asc["0"] + m[1]>>
  \o (IF Len(Strip(m)) > 1
      THEN Txt(<<".">>) \o DigitChars(SubSeq(Strip(m), 2, Len(Strip(m))))
      ELSE <<>>)
  \o Txt(<<"e", IF x < 0 THEN "-" ELSE "+">>)
  \o <<Asc["0"] + ((IF x < 0 THEN -x ELSE x) \div 10),
       Asc["0"] + ((IF x < 0 THEN -x ELSE x) % 10)>>

\* The digits d rounded to Precision significant digits and written in the
\* %e style, for Len(d) > Precision.
Rounded(d, m) ==
  IF Len(m) > Precision THEN Scientific(SubSeq(m, 1, Precision), Len(d))
  ELSE Scientific(m, Len(d) - 1)

\* m * 5^n on digit strings: the digits of the fraction m * 2^-n, n of them
\* behind the decimal point.
RECURSIVE Pow5(_, _)
Pow5(m, n) == IF n = 0 \/ m = <<0>> THEN m ELSE Pow5(Times5(m), n - 1)

\* The %f style of %g for the Precision significant digits s of a value
\* d.ddd * 10^x with -4 <= x < Precision: the trailing zeros are dropped, and
\* the decimal point with them when no digit follows it.
Fixed(s, x) ==
  IF x < 0
  THEN Txt(<<"0", ".">>) \o DigitChars(Zeros(-x - 1) \o Strip(s))
  ELSE DigitChars(SubSeq(s, 1, x + 1))
       \o (IF \A i \in (x + 2)..Len(s) : s[i] = 0 THEN <<>>
           ELSE Txt(<<".">>) \o DigitChars(Strip(SubSeq(s, x + 2, Len(s)))))

\* %g on the Precision significant digits s of a value d.ddd * 10^x: the %e
\* style when the exponent is below -4 or not below Precision.
General(s, x) ==
  IF x < -4 \/ x >= Precision THEN Scientific(s, x) ELSE Fixed(s, x)

\* The same on the digits as the rounding left them: a carry out of the first
\* digit made them 1 and Precision zeros, and the exponent one more.
Carried(s, x) ==
  IF Len(s) > Precision THEN General(SubSeq(s, 1, Precision), x + 1)
  ELSE General(s, x)

\* The digits d of a fraction, n of them behind the point, in %.16g.
printFraction(d, n) ==
  IF Len(d) <= Precision
  THEN Carried(d \o Zeros(Precision - Len(d)), Len(d) - 1 - n)
  ELSE Carried(IF RoundsUp(SubSeq(d, 1, Precision), SubSeq(d, Precision + 1, Len(d)))
               THEN Inc(SubSeq(d, 1, Precision))
               ELSE SubSeq(d, 1, Precision),
               Len(d) - 1 - n)

\* operator<<(double) with the stream's default floatfield, that is printf's
\* %.16g: an integer with all its digits when there are at most Precision of
\* them, else with Precision significant digits and an exponent; a fraction
\* with its exact decimal expansion rounded to Precision significant digits.
printDouble(x) ==
  (IF x[1] \in {1, 4} THEN Txt(<<"-">>) ELSE <<>>)
  \o (IF IsFrac(x) THEN printFraction(Pow5(Mant(x), x[2]), x[2])
      ELSE IF Len(Digits(x)) <= Precision THEN DigitChars(Digits(x))
      ELSE Rounded(Digits(x),
                   IF RoundsUp(SubSeq(Digits(x), 1, Precision),
                               SubSeq(Digits(x), Precision + 1, Len(Digits(x))))
                   THEN Inc(SubSeq(Digits(x), 1, Precision))
                   ELSE SubSeq(Digits(x), 1, Precision)))

\* Printer::visit(const Boolean &), visit(const Null &), visit(const String &),
\* visit(const Number &): p is the printer after printSeparator and printName.
visitLeaf(p, h, value) ==
  CASE h[value].type = "Boolean" ->
         Put(p, IF h[value].m_value = <<1>> THEN Txt(<<"t", "r", "u", "e">>)
                ELSE Txt(<<"f", "a", "l", "s", "e">>))
    [] h[value].type = "Null" -> Put(p, Txt(<<"n", "u", "l", "l">>))
    [] h[value].type = "String" -> printEscapedString(p, h[value].m_value)
    [] h[value].type = "Number" -> Put(p, printDouble(h[value].m_value))

visit(p, h, value) ==
  visitLeaf(printName(printSeparator(p, h, value), h, value), h, value)

\* The bracket written by Printer::enter and Printer::exit.
Bracket(p, h, value, array, object) ==
  IF h[value].type = "Array" THEN Put(p, Txt(<<array>>))
  ELSE IF h[value].type = "Object" THEN Put(p, Txt(<<object>>))
  ELSE p

\* Printer::enter
enter(p, h, value) ==
  [printLineBreak(Bracket(printName(printSeparator(p, h, value), h, value),
                          h, value, "[", "{"))
     EXCEPT !.m_depth = @ + 1]

\* Printer::exit
exit(p, h, value) ==
  Bracket(printIndent(printLineBreak([p EXCEPT !.m_depth = @ - 1])),
          h, value, "]", "}")

\* Object::traverse, Array::traverse, Root::traverse and the leaves' traverse;
\* every method of the Printer returns true.
RECURSIVE traverse(_, _, _), traverse_children(_, _, _)
traverse(p, h, this) ==
  CASE h[this].type = "Root" ->
         IF h[this].m_firstChild # Null THEN traverse(p, h, h[this].m_firstChild)
         ELSE p
    [] h[this].type \in {"Object", "Array"} ->
         exit(traverse_children(enter(p, h, this), h, h[this].m_firstChild), h, this)
    [] OTHER -> visit(p, h, this)

traverse_children(p, h, it) ==
  IF it = Null THEN p
  ELSE traverse_children(traverse(p, h, it), h, h[it].m_next)

\* Root::print: the text written to the stream.
Root_print(h, this, format) == traverse(Printer(format), h, this).m_out

\* ------------------------------------------------------------- observation
\* The tree below a node as the public read interface shows it: getType,
\* getNameStr, the payload, and the children found from firstChild() by
\* nextSibling().  The walks are cut at MaxNodes links and at memory that
\* holds no object.
RECURSIVE TreeAt(_, _, _), KidsAt(_, _, _, _)
TreeAt(h, n, depth) ==
  [type |-> h[n].type, name |-> h[n].m_name, value |-> h[n].m_value,
   kids |-> IF depth = 0 THEN <<>>
            ELSE KidsAt(h, h[n].m_firstChild, MaxNodes, depth - 1)]
KidsAt(h, it, fuel, depth) ==
  IF ~Live(h, it) \/ fuel = 0 THEN <<>>
  ELSE <<TreeAt(h, it, depth)>> \o KidsAt(h, h[it].m_next, fuel - 1, depth)

Tree(h, n) == TreeAt(h, n, MaxNodes)

\* The content of a Root: empty, or the one tree below firstChild().
Content(h, root) ==
  IF ~Live(h, h[root].m_firstChild) THEN <<>>
  ELSE <<Tree(h, h[root].m_firstChild)>>

\* ------------------------------------------------------------------ state
\* The document the client works on: Root root; at slot R.
R == 1

EmptyHeap == [s \in Slots |-> IF s = R THEN Fresh("Root", <<>>, <<>>) ELSE Dead]

\* A call with no arguments of interest.
Call(op, this, err) ==
  [op |-> op, this |-> this, text |-> <<>>, name |-> <<>>, pos |-> 0,
   value |-> Null, err |-> err, ret |-> Null]

\* A process that died of a fault makes no further call.
Running == last.err # "SIGSEGV"

\* The JSON texts handed to Root::parse.
Texts ==
  { Txt(<<"1">>), Txt(<<"2">>), Txt(<<"t", "r", "u", "e">>),
    Txt(<<"\"", "a", "\"">>),
    Txt(<<"[", "]">>), Txt(<<"{", "}">>),
    Txt(<<"[", "1", ",", "2", "]">>),
    Txt(<<"{", "\"", "a", "\"", ":", "1", "}">>),
    Txt(<<"{", "\"", "a", "\"", ":", "1", ",", "\"", "b", "\"", ":", "2", "}">>),
    Txt(<<"{", "\"", "a", "\"", ":", "1", ",", "\"", "a", "\"", ":", "2", "}">>),
    Txt(<<"[", "1", ",">>), Txt(<<"[", "1", " ", "2", "]">>),
    Txt(<<"{", "\"", "a", "\"", ":", "1", ",">>),
    Txt(<<"x">>), Txt(<<"0", "1">>) }

\* Root() : a document with no value.
Init ==
  /\ heap = EmptyHeap
  /\ prev = EmptyHeap
  /\ last = Call("Root", R, "")
  /\ out = <<>>
  /\ steps = 0

\* root.parse(json).  When m_lastChild is left dangling by an earlier call,
\* insertValueInt stores through it into memory that holds no object: the
\* store may land there unnoticed, land in an object that was allocated there
\* since, or fault.
Parse(json, pol, fault) ==
  LET r == parse(heap, R, json, pol)
      dangling == /\ heap[R].m_lastChild # Null
                  /\ ~Live(Delete(heap, heap[R].m_firstChild), heap[R].m_lastChild)
  IN  /\ Running
      /\ steps < MaxSteps
      /\ r.err # "std::bad_alloc"
      /\ fault => dangling
      /\ prev' = heap
      /\ heap' = IF fault THEN heap ELSE r.h
      /\ last' = [Call("parse", R, IF fault THEN "SIGSEGV" ELSE r.err)
                    EXCEPT !.text = json]
      /\ out' = out
      /\ steps' = steps + 1

NextParse == \E json \in Texts, pol \in {"low", "high"}, fault \in BOOLEAN :
               Parse(json, pol, fault)

SpecParse == Init /\ [][NextParse]_vars

\* What Root::parse makes of a text on a Root that never held a value.
Parsed(json) == parse(EmptyHeap, R, json, "low")

\* C1: after every successful Root::parse the content of the Root is exactly
\* the tree of the text just parsed.
C1_ParseInstallsNewTree ==
  (last.op = "parse" /\ last.err = "") =>
     Content(heap, R) = Content(Parsed(last.text).h, R)

\* C2: after a Root::parse that raised an error the Root holds no value or
\* exactly the value it held before the call.
C2_FailedParseKeepsNoPartialTree ==
  (last.op = "parse" /\ last.err \notin {"", "SIGSEGV"}) =>
     Content(heap, R) \in {<<>>, Content(prev, R)}

\* ---------------------------------------------------------- client calls
Names == {Txt(<<"a">>), Txt(<<"b">>), Txt(<<"c">>)}

\* The doubles the client passes to setNumber, pushNumber, new Number(...).
Nums == {Dbl(FALSE, <<9>>)}

Objects(h) == {n \in Slots : h[n].live /\ h[n].type = "Object"}
Arrays(h)  == {n \in Slots : h[n].live /\ h[n].type = "Array"}
Values(h)  == {n \in Slots : h[n].live /\ h[n].type # "Root"}

\* The check of Object::linkValue and Array::linkValueInt (lines 120, 217).
IsLinked(h, value) ==
  h[value].m_next # Null \/ h[value].m_parent # Null \/ h[value].m_prev # Null

\* this or an object above it.
RECURSIVE Above(_, _, _)
Above(h, n, fuel) ==
  IF ~Live(h, n) \/ fuel = 0 THEN {}
  ELSE {n} \cup Above(h, h[n].m_parent, fuel - 1)

\* The objects the client owns and may hand to linkValue of container this: not
\* linked anywhere, not the value of the Root, not this nor above it.
Owned(h, this) ==
  {n \in Values(h) : /\ ~IsLinked(h, n)
                     /\ n # h[R].m_firstChild
                     /\ n \notin Above(h, this, MaxNodes)}

\* The state after a call.
Done(rec, h) ==
  /\ prev' = heap
  /\ heap' = h
  /\ last' = rec
  /\ out' = out
  /\ steps' = steps + 1

Ready == Running /\ steps < MaxSteps

\* new Number(v) by the client.
NewNumber(v) ==
  LET r == Make(heap, "Number", v, "low")
  IN  /\ Ready
      /\ r.err = ""
      /\ Done([Call("new", Null, r.err) EXCEPT !.ret = r.ret], r.h)

\* value->setName(name) by the client.
SetName(value, name) ==
  /\ Ready
  /\ value \in Values(heap)
  /\ Done([Call("setName", value, "") EXCEPT !.name = name],
          setName(heap, value, name))

\* object.linkValue(name, value)
ObjLinkValue(this, name, value) ==
  LET r == Object_linkValue(heap, this, name, value)
  IN  /\ Ready
      /\ this \in Objects(heap)
      /\ value \in Values(heap)
      /\ Done([Call("Object::linkValue", this, r.err)
                 EXCEPT !.name = name, !.value = value, !.ret = r.ret], r.h)

\* object.setValue(name, *value)
ObjSetValue(this, name, value) ==
  LET r == Object_setValue(heap, this, name, value, "low")
  IN  /\ Ready
      /\ this \in Objects(heap)
      /\ value \in Values(heap)
      /\ r.err # "std::bad_alloc"
      /\ Done([Call("Object::setValue", this, r.err)
                 EXCEPT !.name = name, !.value = value, !.ret = r.ret], r.h)

\* object.setNumber(name, v), object.createObject(name), object.createArray(name)
\* and the other set* calls, by the type of the object they make.
ObjSetNew(this, name, type, v) ==
  LET r == Object_setNew(heap, this, name, type, v, "low")
  IN  /\ Ready
      /\ this \in Objects(heap)
      /\ r.err # "std::bad_alloc"
      /\ Done([Call("Object::set", this, r.err)
                 EXCEPT !.name = name, !.ret = r.ret], r.h)

\* object.removeValue(name)
ObjRemoveValue(this, name) ==
  LET r == Object_removeValue(heap, this, name)
  IN  /\ Ready
      /\ this \in Objects(heap)
      /\ Done([Call("Object::removeValue", this, r.err) EXCEPT !.name = name], r.h)

\* object.getValue(name)
ObjGetValue(this, name) ==
  LET r == Object_getValue(heap, this, name)
  IN  /\ Ready
      /\ this \in Objects(heap)
      /\ Done([Call("Object::getValue", this, r.err)
                 EXCEPT !.name = name, !.ret = r.ret], r.h)

\* object.getObject(name), getArray(name), getNumber(name), ...
ObjGetTyped(this, name, type) ==
  LET r == Object_getTyped(heap, this, name, type)
  IN  /\ Ready
      /\ this \in Objects(heap)
      /\ Done([Call("Object::get", this, r.err)
                 EXCEPT !.name = name, !.ret = r.ret], r.h)

\* array.linkValueBack(value), linkValueBefore(value, position),
\* linkValueAt(value, position)
ArrLinkValue(this, value, position, where) ==
  LET r == Array_linkValueInt(heap, this, value, position, where)
  IN  /\ Ready
      /\ this \in Arrays(heap)
      /\ value \in Values(heap)
      /\ Done([Call(CASE where = 0 -> "Array::linkValueBack"
                      [] where = 1 -> "Array::linkValueBefore"
                      [] OTHER -> "Array::linkValueAt", this, r.err)
                 EXCEPT !.pos = position, !.value = value, !.ret = r.ret], r.h)

\* array.pushValue(*value), insertValue(position, *value),
\* setValue(position, *value)
ArrPutValue(this, value, position, where) ==
  LET r == Array_putValue(heap, this, value, position, where, "low")
  IN  /\ Ready
      /\ this \in Arrays(heap)
      /\ value \in Values(heap)
      /\ r.err # "std::bad_alloc"
      /\ Done([Call(CASE where = 0 -> "Array::pushValue"
                      [] where = 1 -> "Array::insertValue"
                      [] OTHER -> "Array::setValue", this, r.err)
                 EXCEPT !.pos = position, !.value = value, !.ret = r.ret], r.h)

\* array.pushNumber(v), insertNumber(position, v), setNumber(position, v) and
\* the other push*, insert*, set* calls, by the type of the object they make.
ArrPutNew(this, type, v, position, where) ==
  LET r == Array_putNew(heap, this, type, v, position, where, "low")
  IN  /\ Ready
      /\ this \in Arrays(heap)
      /\ r.err # "std::bad_alloc"
      /\ Done([Call(CASE where = 0 -> "Array::push"
                      [] where = 1 -> "Array::insert"
                      [] OTHER -> "Array::set", this, r.err)
                 EXCEPT !.pos = position, !.ret = r.ret], r.h)

\* array.removeValue(position)
ArrRemoveValue(this, position) ==
  LET r == Array_removeValue(heap, this, position)
  IN  /\ Ready
      /\ this \in Arrays(heap)
      /\ Done([Call("Array::removeValue", this, r.err) EXCEPT !.pos = position], r.h)

\* array.getValue(idx)
ArrGetValue(this, idx) ==
  LET r == Array_getValue(heap, this, idx)
  IN  /\ Ready
      /\ this \in Arrays(heap)
      /\ Done([Call("Array::getValue", this, r.err)
                 EXCEPT !.pos = idx, !.ret = r.ret], r.h)

\* array.getObject(idx), getArray(idx), getNumber(idx), ...
ArrGetTyped(this, idx, type) ==
  LET r == Array_getTyped(heap, this, idx, type)
  IN  /\ Ready
      /\ this \in Arrays(heap)
      /\ Done([Call("Array::get", this, r.err)
                 EXCEPT !.pos = idx, !.ret = r.ret], r.h)

\* root.getObject(), root.getArray()
RootGetTyped(type) ==
  LET r == Root_getTyped(heap, R, type)
  IN  /\ Ready
      /\ Done([Call("Root::get", R, r.err) EXCEPT !.ret = r.ret], r.h)

\* value->clone()
Clone(this) ==
  LET r == clone(heap, this, "low")
  IN  /\ Ready
      /\ this \in Slots /\ heap[this].live
      /\ r.err # "std::bad_alloc"
      /\ Done([Call("clone", this, r.err) EXCEPT !.ret = r.ret], r.h)

\* Every Number of the heap is one the model follows.
Modelled(h) ==
  \A n \in Slots : (h[n].live /\ h[n].type = "Number") => h[n].m_value # Unmodelled

\* root.print(out, format) on an empty stream.
RootPrint(format) ==
  /\ Ready
  /\ Modelled(heap)
  /\ prev' = heap
  /\ heap' = heap
  /\ last' = Call(IF format THEN "print formatted" ELSE "print", R, "")
  /\ out' = Root_print(heap, R, format)
  /\ steps' = steps + 1

\* Root root(json): the document constructed from a text.
InitFrom(T) ==
  \E json \in T :
     /\ Parsed(json).err = ""
     /\ heap = Parsed(json).h
     /\ prev = EmptyHeap
     /\ last = [Call("Root", R, "") EXCEPT !.text = json]
     /\ out = <<>>
     /\ steps = 0

\* ------------------------------------------------- linking a linked node
LinkTexts ==
  { Txt(<<"{", "\"", "a", "\"", ":", "1", ",", "\"", "b", "\"", ":", "2", "}">>),
    Txt(<<"[", "1", ",", "2", "]">>),
    Txt(<<"{", "\"", "a", "\"", ":", "[", "1", "]", "}">>) }

InitLink == InitFrom(LinkTexts)

\* The client links any object it can reach, linked or not.
NextLink ==
  \/ \E this \in Slots, name \in Names, value \in Slots :
        ObjLinkValue(this, name, value)
  \/ \E this \in Slots, value \in Slots, position \in 0..1, where \in 0..2 :
        ArrLinkValue(this, value, position, where)
  \/ \E v \in Nums : NewNumber(v)

SpecLink == InitLink /\ [][NextLink]_vars

LinkOps == {"Object::linkValue", "Array::linkValueBack",
            "Array::linkValueBefore", "Array::linkValueAt"}

\* C3: linkValue / linkValueBack / linkValueBefore / linkValueAt given a node
\* that is already linked fail with an error and change nothing.
C3_LinkedNodeIsRefused ==
  (last.op \in LinkOps /\ IsLinked(prev, last.value)) =>
     (last.err \notin {"", "fault"} /\ heap = prev)

\* ------------------------------------------------------ Objects by name
C4Text == Txt(<<"{", "\"", "a", "\"", ":", "1", ",", "\"", "a", "\"", ":", "2", "}">>)

ObjTexts ==
  { Txt(<<"{", "}">>),
    Txt(<<"{", "\"", "a", "\"", ":", "1", ",", "\"", "b", "\"", ":", "2", "}">>),
    Txt(<<"{", "\"", "b", "\"", ":", "{", "\"", "a", "\"", ":", "1", "}", "}">>),
    C4Text }

InitObj == InitFrom(ObjTexts)

\* The client sets members by name, with objects of its own or made by the
\* call, and removes members.
NextObj ==
  \/ \E this \in Slots, name \in Names, type \in {"Number", "Object"}, v \in Nums :
        ObjSetNew(this, name, type, IF type = "Number" THEN v ELSE <<>>)
  \/ \E this \in Slots, name \in Names, value \in Slots :
        value \in Owned(heap, this) /\ ObjLinkValue(this, name, value)
  \/ \E this \in Slots, name \in Names, value \in Slots :
        ObjSetValue(this, name, value)
  \/ \E this \in Slots, name \in Names : ObjRemoveValue(this, name)
  \/ \E v \in Nums : NewNumber(v)

SpecObj == InitObj /\ [][NextObj]_vars

\* The names of the children of an Object are pairwise different.
UniqueNames(h, this) ==
  LET w == Walk(h, this)
  IN  \A i, j \in 1..Len(w) :
        (i # j /\ w[i] # -1 /\ w[j] # -1) => h[w[i]].m_name # h[w[j]].m_name

\* C4: no Object has two children with the same name, whatever was parsed and
\* whatever was set or removed by name.
C4_ObjectNamesUnique ==
  \A this \in Objects(heap) : UniqueNames(heap, this)

SetOps == {"Object::linkValue", "Object::setValue", "Object::set"}

\* C5: setting a value by name on an Object with an object that is not linked
\* anywhere: when a child has the name, the new node takes the place of the
\* (first) child of that name and the other children, their order and
\* childCount stay; otherwise the new node becomes the last child and
\* childCount grows by one.
C5_SetByNameReplacesInPlace ==
  (last.op \in SetOps /\ last.err = "") =>
     LET this   == last.this
         before == Walk(prev, this)
         after  == Walk(heap, this)
         k      == FindName(prev, this, last.name)
         value  == last.ret
     IN  /\ Live(heap, value)
         /\ heap[value].m_name = last.name
         /\ heap[value].m_parent = this
         /\ IF k # 0
            THEN /\ after = [before EXCEPT ![k] = value]
                 /\ heap[this].m_length = prev[this].m_length
            ELSE /\ after = Append(before, value)
                 /\ heap[this].m_length = prev[this].m_length + 1
         /\ heap[this].m_length = Len(after)
         /\ \A i \in 1..Len(before) :
              i # k => Tree(heap, before[i]) = Tree(prev, before[i])

\* A member that is not the last one was replaced by name.
C5_Witness ==
  /\ last.op \in SetOps
  /\ last.err = ""
  /\ FindName(prev, last.this, last.name) # 0
  /\ FindName(prev, last.this, last.name) < Len(Walk(prev, last.this))

\* ---------------------------------------------------- Arrays by position
ArrTexts ==
  { Txt(<<"[", "]">>),
    Txt(<<"[", "1", ",", "2", ",", "3", "]">>),
    Txt(<<"[", "1", ",", "[", "2", "]", "]">>) }

\* The int positions the client passes.
Positions == -1..4

InitArr == InitFrom(ArrTexts)

NextArr ==
  \/ \E this \in Slots, position \in Positions, where \in 0..2, v \in Nums :
        ArrPutNew(this, "Number", v, position, where)
  \/ \E this \in Slots, value \in Slots, position \in Positions, where \in 0..2 :
        ArrPutValue(this, value, position, where)
  \/ \E this \in Slots, value \in Slots, position \in Positions, where \in 0..2 :
        value \in Owned(heap, this) /\ ArrLinkValue(this, value, position, where)
  \/ \E this \in Slots, position \in Positions : ArrRemoveValue(this, position)
  \/ \E this \in Slots, idx \in Positions : ArrGetValue(this, idx)
  \/ \E v \in Nums : NewNumber(v)

SpecArr == InitArr /\ [][NextArr]_vars

InsertOps == {"Array::insert", "Array::insertValue", "Array::linkValueBefore"}
SetAtOps  == {"Array::set", "Array::setValue", "Array::linkValueAt"}

\* C6: inserting before position p of an Array with n children puts the new
\* node right before the former p-th child when 0 <= p < n, keeping the order
\* of the others and raising childCount to n + 1, and fails with "index out of
\* range" for every other p.
C6_InsertBeforePosition ==
  (last.op \in InsertOps) =>
     LET this   == last.this
         before == Walk(prev, this)
         after  == Walk(heap, this)
         n      == Len(before)
         p      == last.pos
     IN  IF 0 <= p /\ p < n
         THEN /\ last.err = ""
              /\ after = SubSeq(before, 1, p) \o <<last.ret>> \o SubSeq(before, p + 1, n)
              /\ heap[this].m_length = n + 1
         ELSE last.err = "index out of range"

\* C7: getValue(i), the setters at position i and removeValue(i) act on the
\* i-th child when 0 <= i < n and fail with "index out of range" for every
\* other i.
C7_PositionDesignatesIthChild ==
  (last.op \in SetAtOps \cup {"Array::getValue", "Array::removeValue"}) =>
     LET this   == last.this
         before == Walk(prev, this)
         after  == Walk(heap, this)
         n      == Len(before)
         i      == last.pos
     IN  IF 0 <= i /\ i < n
         THEN /\ last.err = ""
              /\ last.op = "Array::getValue" =>
                   (last.ret = before[i + 1] /\ after = before)
              /\ last.op \in SetAtOps => after = [before EXCEPT ![i + 1] = last.ret]
              /\ last.op = "Array::removeValue" =>
                   after = SubSeq(before, 1, i) \o SubSeq(before, i + 2, n)
         ELSE last.err = "index out of range"

\* ------------------------------------------------- accessors that fail
AccTexts ==
  { Txt(<<"1">>),
    Txt(<<"{", "\"", "a", "\"", ":", "1", ",", "\"", "b", "\"", ":",
           "[", "1", ",", "2", "]", "}">>),
    Txt(<<"[", "1", ",", "{", "\"", "a", "\"", ":", "1", "}", "]">>) }

InitAcc == Init \/ InitFrom(AccTexts)

Kinds == {"Object", "Array", "Number"}

NextAcc ==
  \/ \E this \in Slots, name \in Names : ObjGetValue(this, name)
  \/ \E this \in Slots, name \in Names, type \in Kinds : ObjGetTyped(this, name, type)
  \/ \E this \in Slots, idx \in Positions : ArrGetValue(this, idx)
  \/ \E this \in Slots, idx \in Positions, type \in Kinds : ArrGetTyped(this, idx, type)
  \/ \E this \in Slots, position \in Positions, where \in 1..2, v \in Nums :
        ArrPutNew(this, "Number", v, position, where)
  \/ \E this \in Slots, value \in Slots, position \in Positions, where \in 1..2 :
        ArrPutValue(this, value, position, where)
  \/ \E this \in Slots, position \in Positions : ArrRemoveValue(this, position)
  \/ \E type \in Kinds : RootGetTyped(type)
  \/ \E this \in Slots, name \in Names, v \in Nums : ObjSetNew(this, name, "Number", v)

SpecAcc == InitAcc /\ [][NextAcc]_vars

AccessorOps ==
  {"Object::getValue", "Object::get", "Array::getValue", "Array::get",
   "Array::insert", "Array::insertValue", "Array::set", "Array::setValue",
   "Array::removeValue", "Root::get"}

\* C8: an accessor call that raises an error leaves every object as it was:
\* the same nodes, names, payloads, links and child counts.
C8_FailedAccessorChangesNothing ==
  (last.op \in AccessorOps /\ last.err \notin {"", "fault"}) => heap = prev

\* An insert or set at a position beyond a non-empty Array failed.
C8_Witness ==
  /\ last.op \in {"Array::insert", "Array::insertValue", "Array::set", "Array::setValue"}
  /\ last.err = "index out of range"
  /\ prev[last.this].m_length > 0

\* ------------------------------------------------------------------ clone
CloneTexts ==
  { Txt(<<"{", "\"", "a", "\"", ":", "[", "1", "]", "}">>),
    Txt(<<"[", "1", ",", "\"", "a", "\"", "]">>),
    Txt(<<"{", "\"", "a", "\"", ":", "1", ",", "\"", "b", "\"", ":",
           "t", "r", "u", "e", "}">>),
    Txt(<<"[", "{", "\"", "b", "\"", ":", "n", "u", "l", "l", "}", "]">>) }

InitClone == InitFrom(CloneTexts)

\* The client names nodes and clones any object of the document, the Root
\* included.
NextClone ==
  \/ \E this \in Slots : Clone(this)
  \/ \E value \in Slots, name \in Names : SetName(value, name)

SpecClone == InitClone /\ [][NextClone]_vars

\* The objects of the tree below n, n included.
RECURSIVE NodesAt(_, _, _, _)
NodesAt(h, n, fuel, depth) ==
  IF ~Live(h, n) \/ fuel = 0 THEN {}
  ELSE (IF depth = 0 THEN {} ELSE NodesAt(h, h[n].m_firstChild, MaxNodes, depth - 1))
       \cup {n} \cup NodesAt(h, h[n].m_next, fuel - 1, depth)
Nodes(h, n) ==
  {n} \cup NodesAt(h, h[n].m_firstChild, MaxNodes, MaxNodes)

\* The tree t with the names that Object::clone copies: named says whether the
\* top node keeps its name, and below it the children of Objects keep theirs.
RECURSIVE Renamed(_, _)
Renamed(t, named) ==
  [type |-> t.type, name |-> IF named THEN t.name ELSE <<>>, value |-> t.value,
   kids |-> [i \in 1..Len(t.kids) |-> Renamed(t.kids[i], t.type = "Object")]]

\* What every clone() guarantees besides the content of the copy: the result
\* is unlinked, none of its objects existed before the call, and every object
\* that existed is as it was.
CloneIsIndependent ==
  /\ ~IsLinked(heap, last.ret)
  /\ \A n \in Nodes(heap, last.ret) : ~prev[n].live
  /\ \A n \in Slots : prev[n].live => heap[n] = prev[n]

RoundTripTexts ==
  { Txt(<<"1", "0", "0", "0", "0", "0", "0", "0", "0", "0", "0", "0", "0", "0",
           "0", "0", "2">>),
    Txt(<<"[", "-", "0", ",", "1", "2", "e", "1", ",", "t", "r", "u", "e", ",",
           "n", "u", "l", "l", "]">>),
    Txt(<<"{", "\"", "a", "\"", ":", "\"", "\\", "n", "\\", "\"", "\\", "u",
           "0", "0", "1", "f", "x", "\"", ",", "\"", "a", "\"", ":", "[", "]", "}">>),
    Txt(<<"[", "{", "\"", "\\", "\\", "\"", ":", "9", "0", "0", "7", "1", "9",
           "9", "2", "5", "4", "7", "4", "0", "9", "9", "2", "}", ",", "{", "}",
           "]">>),
    Txt(<<"\"", "\"">>) }

\* The doubles the client passes to the set and push helpers here.
RoundTripNums ==
  Nums \cup {Dbl(TRUE, <<1, 2, 3, 4, 5, 6, 7, 8, 9, 0, 1, 2, 3, 4, 5, 6, 8>>)}

InitRoundTrip == InitFrom(RoundTripTexts)

\* The client changes the document through the helpers and prints it.
NextRoundTrip ==
  \/ RootPrint(FALSE)
  \/ \E this \in Slots, name \in Names, v \in RoundTripNums :
        ObjSetNew(this, name, "Number", v)
  \/ \E this \in Slots, name \in Names, value \in Slots :
        ObjSetValue(this, name, value)
  \/ \E this \in Slots, position \in 0..1, where \in 0..2, v \in RoundTripNums :
        ArrPutNew(this, "Number", v, position, where)
  \/ \E this \in Slots, name \in Names : ObjRemoveValue(this, name)
  \/ \E this \in Slots, position \in 0..1 : ArrRemoveValue(this, position)

SpecRoundTrip == InitRoundTrip /\ [][NextRoundTrip]_vars

\* The tree t as a reader of the document decodes it: kinds, the keys of the
\* members of Objects, the child order and the scalar values, numbers up to
\* numeric equality (-0.0 equals 0.0).
RECURSIVE Decoded(_, _)
Decoded(t, member) ==
  [type |-> t.type, name |-> IF member THEN t.name ELSE <<>>,
   value |-> IF t.type = "Number" /\ IsZero(t.value) THEN Dbl(FALSE, <<0>>)
             ELSE t.value,
   kids |-> [i \in 1..Len(t.kids) |-> Decoded(t.kids[i], t.type = "Object")]]

DecodedContent(c) == [i \in 1..Len(c) |-> Decoded(c[i], FALSE)]

\* C10: the compact output of Root::print on a Root that holds a value parses
\* into a Root with the same structure, keys, child order and scalar values.
C10_PrintThenParseRoundTrips ==
  (last.op = "print" /\ Content(heap, R) # <<>>) =>
     /\ Parsed(out).err = ""
     /\ DecodedContent(Content(Parsed(out).h, R)) = DecodedContent(Content(heap, R))

\* ------------------------------------------------------ formatted output
FormatTexts ==
  { Txt(<<"[", "8", ".", "8", "]">>),
    Txt(<<"{", "\"", "a", "\"", ":", "[", "]", ",", "\"", "b", "\"", ":", "{",
           "\"", "c", "\"", ":", "[", "1", ",", "{", "}", "]", "}", "}">>),
    Txt(<<"[", "[", "[", "]", ",", "\"", "\\", "n", "\"", "]", ",", "-", "0", ",",
           "n", "u", "l", "l", "]">>),
    Txt(<<"{", "}">>),
    Txt(<<"t", "r", "u", "e">>) }

InitFormat == InitFrom(FormatTexts)

\* The client changes the document through the helpers and prints it with
\* formatting on.
NextFormat ==
  \/ RootPrint(TRUE)
  \/ \E this \in Slots, name \in Names, v \in Nums :
        ObjSetNew(this, name, "Number", v)
  \/ \E this \in Slots, position \in 0..1, where \in 0..2, type \in {"Number", "Array"} :
        ArrPutNew(this, type, Dbl(FALSE, <<7>>), position, where)
  \/ \E this \in Slots, name \in Names : ObjRemoveValue(this, name)
  \/ \E this \in Slots, position \in 0..1 : ArrRemoveValue(this, position)

SpecFormat == InitFormat /\ [][NextFormat]_vars

\* C11: the formatted output of Root::print on a Root that holds a value
\* parses, and the Root parsed from it prints, with formatting on and the same
\* indent and line break, the same bytes again.
C11_FormattedPrintIsIdempotent ==
  (last.op = "print formatted" /\ Content(heap, R) # <<>>) =>
     /\ Parsed(out).err = ""
     /\ Modelled(Parsed(out).h) => Root_print(Parsed(out).h, R, TRUE) = out

\* ------------------------------------------------------- the Root's value
RootTexts ==
  { Txt(<<"1">>), Txt(<<"[", "1", ",", "2", "]">>),
    Txt(<<"{", "\"", "a", "\"", ":", "1", "}">>), Txt(<<"[", "1", ",">>) }

\* root.linkValue(value) with an object the client owns.
RootLinkValue(value) ==
  LET r == Root_linkValue(heap, R, value)
  IN  /\ Ready
      /\ value \in Owned(heap, R)
      /\ Done([Call("Root::linkValue", R, r.err)
                 EXCEPT !.value = value, !.ret = r.ret], r.h)

\* root.setValue(value)
RootSetValue(value) ==
  LET r == Root_setValue(heap, R, value, "low")
  IN  /\ Ready
      /\ value \in Values(heap)
      /\ r.err # "std::bad_alloc"
      /\ Done([Call("Root::setValue", R, r.err)
                 EXCEPT !.value = value, !.ret = r.ret], r.h)

\* root.createRootObject(), root.createRootArray()
RootCreate(type) ==
  LET r == Root_createRoot(heap, R, type, "low")
  IN  /\ Ready
      /\ r.err # "std::bad_alloc"
      /\ Done([Call("Root::createRoot", R, r.err) EXCEPT !.ret = r.ret], r.h)

\* The client constructs a Root, makes values and installs them with the Root
\* operations in any order.
NextRoot ==
  \/ \E json \in RootTexts, pol \in {"low", "high"}, fault \in BOOLEAN :
        Parse(json, pol, fault)
  \/ \E v \in Nums : NewNumber(v)
  \/ \E value \in Slots : RootLinkValue(value)
  \/ \E value \in Slots : RootSetValue(value)
  \/ \E type \in {"Object", "Array"} : RootCreate(type)

SpecRoot == Init /\ [][NextRoot]_vars

RootOps == {"Root", "parse", "Root::linkValue", "Root::setValue", "Root::createRoot"}

\* C12: after every Root operation that returns, childCount() of the Root is
\* 0 or 1, it is 1 exactly when firstChild() is not null, and lastChild() is
\* then that same live value.
C12_RootHoldsZeroOrOneChild ==
  (last.op \in RootOps /\ last.err # "SIGSEGV") =>
     /\ heap[R].m_length \in {0, 1}
     /\ heap[R].m_length = 1 <=> heap[R].m_firstChild # Null
     /\ heap[R].m_firstChild # Null =>
          /\ heap[R].m_lastChild = heap[R].m_firstChild
          /\ heap[heap[R].m_firstChild].live

\* ----------------------------------------------------- parsing one text
\* The client holds a NUL-terminated text and a new Root.
InitText(T) ==
  \E json \in T :
     /\ heap = EmptyHeap
     /\ prev = EmptyHeap
     /\ last = [Call("json", R, "") EXCEPT !.text = json]
     /\ out = <<>>
     /\ steps = 0

\* What the memory behind the terminating NUL of the text may hold.
Beyond == {<<>>, Txt(<<"\"">>), Txt(<<"a", "\"">>)}

\* root.parse(json) on the text held, which lies in memory followed by its NUL
\* and by the bytes behind.  last.pos is the cursor where the parser stopped.
\* A cursor behind the NUL reads memory that is not part of the text: the read
\* may find any byte there, or fault.
ParseText(behind, fault) ==
  LET r == parse(heap, R, last.text \o <<0>> \o behind, "low")
  IN  /\ last.op = "json"
      /\ r.err # "std::bad_alloc"
      /\ fault => r.ptr > Len(last.text) + 1
      /\ prev' = heap
      /\ heap' = IF fault THEN heap ELSE r.h
      /\ last' = [Call("parse", R, IF fault THEN "SIGSEGV" ELSE r.err)
                    EXCEPT !.text = last.text, !.pos = r.ptr]
      /\ out' = out
      /\ steps' = steps + 1

NextText == \E behind \in Beyond, fault \in BOOLEAN : ParseText(behind, fault)

\* All the texts of at most n characters of the set A.
RECURSIVE TextsUpTo(_, _)
TextsUpTo(A, n) ==
  IF n = 0 THEN {<<>>}
  ELSE TextsUpTo(A, n - 1)
       \cup {Append(t, Asc[c]) : t \in TextsUpTo(A, n - 1), c \in A}

\* ------------------------------------------------------------ object keys
MaxKeyLen == 3

\* The text of one member whose key text is k, at the first key position of
\* an object and at the key position behind a comma.
KeyFirst(k) == Txt(<<"{">>) \o k \o Txt(<<":", "1", "}">>)
KeySecond(k) ==
  Txt(<<"{", "\"", "b", "\"", ":", "2", ",">>) \o k \o Txt(<<":", "1", "}">>)

KeyTexts ==
  {KeyFirst(k) : k \in TextsUpTo({"\"", "a", " ", "}", "\\"}, MaxKeyLen)}
  \cup {KeySecond(k) : k \in TextsUpTo({"\"", "a", " ", "}", "\\"}, MaxKeyLen)}

InitKey == InitText(KeyTexts)
SpecKey == InitKey /\ [][NextText]_vars

\* The key position of a text of KeyTexts.
KeyPos(json) == IF Ch(json, 2) = Asc["\""] /\ Ch(json, 3) = Asc["b"] THEN 8 ELSE 2

\* C13: when the first significant character at a key position of an object
\* is not '"' (nor the '}' that closes an empty object), Root::parse fails.
C13_KeyBeginsWithQuote ==
  LET c == Ch(last.text, whitespace(last.text, KeyPos(last.text)))
  IN  (/\ last.op = "parse"
       /\ c # Asc["\""]
       /\ ~(KeyPos(last.text) = 2 /\ c = Asc["}"])) => last.err # ""

\* ------------------------------------------- empty containers and commas
MaxElems == 2

\* The elements of the containers here.
Elems ==
  { Txt(<<"1">>), Txt(<<"[", "]">>), Txt(<<"{", " ", "}">>),
    Txt(<<"\"", "s", "\"">>), Txt(<<"[", "2", "]">>) }

\* The element lists e1,e2,... of 1..n elements, as array elements and as
\* object members with the key "a".
RECURSIVE ElemLists(_), MemberLists(_)
ElemLists(n) ==
  IF n = 1 THEN Elems
  ELSE ElemLists(n - 1)
       \cup {l \o Txt(<<",">>) \o e : l \in ElemLists(n - 1), e \in Elems}
MemberLists(n) ==
  IF n = 1 THEN {Txt(<<"\"", "a", "\"", ":">>) \o e : e \in Elems}
  ELSE MemberLists(n - 1)
       \cup {l \o Txt(<<",", "\"", "a", "\"", ":">>) \o e :
               l \in MemberLists(n - 1), e \in Elems}

\* '{}' and '[]' with whitespace between the brackets.
EmptyTexts ==
  {Txt(<<"{">>) \o w \o Txt(<<"}">>) : w \in TextsUpTo({" ", "\\n", "\\t"}, MaxElems)}
  \cup {Txt(<<"[">>) \o w \o Txt(<<"]">>) : w \in TextsUpTo({" ", "\\n", "\\t"}, MaxElems)}

\* Arrays and objects with a comma directly before the closing bracket.
TrailingCommaTexts ==
  {Txt(<<"[">>) \o l \o Txt(<<",", "]">>) : l \in ElemLists(MaxElems)}
  \cup {Txt(<<"{">>) \o l \o Txt(<<",", "}">>) : l \in MemberLists(MaxElems)}

InitComma == InitText(EmptyTexts \cup TrailingCommaTexts)
SpecComma == InitComma /\ [][NextText]_vars

\* The messages of the errors thrown for a missing ':', ',' or closing bracket
\* (src/cwjson.cpp:337, 352, 385).
ExpectedDelimiter ==
  { "expected ':' before object value",
    "expected '}' or ',' after object element",
    "expected ']' or ',' after array element" }

\* C14: '{}' and '[]', with optional whitespace between the brackets, parse to
\* an Object or Array without children, and a text with a comma directly before
\* the closing '}' or ']' fails with an error of the ExpectedDelimiter kind.
C14_EmptyContainersAndTrailingComma ==
  last.op = "parse" =>
    /\ last.text \in EmptyTexts =>
         /\ last.err = ""
         /\ Len(Content(heap, R)) = 1
         /\ Content(heap, R)[1].type =
              (IF last.text[1] = Asc["{"] THEN "Object" ELSE "Array")
         /\ Content(heap, R)[1].kids = <<>>
         /\ heap[heap[R].m_firstChild].m_length = 0
    /\ last.text \in TrailingCommaTexts => last.err \in ExpectedDelimiter

\* -------------------------------------------------------- \u escapes
\* Code units as four hex digits: the first and last high surrogate, the first
\* and last low surrogate, their neighbours, zero, 'A', and the pair of U+1F600.
Units ==
  { <<"D", "8", "0", "0">>, <<"D", "B", "F", "F">>, <<"D", "C", "0", "0">>,
    <<"D", "F", "F", "F">>, <<"D", "7", "F", "F">>, <<"E", "0", "0", "0">>,
    <<"0", "0", "0", "0">>, <<"0", "0", "4", "1">>, <<"d", "8", "3", "d">>,
    <<"d", "e", "0", "0">>, <<"0", "0", "e", "9">> }

\* What follows the first escape: nothing, a second escape, the four digits
\* without their backslash, a character, another escape.
Follows ==
  {<<>>, <<"A">>, <<"\\", "n">>}
  \cup {<<"\\", "u">> \o u : u \in Units}
  \cup {<<"u">> \o u : u \in Units}

\* The string tokens "\uXXXX..." made of them.
EscapeTexts ==
  {Txt(<<"\"", "\\", "u">> \o u \o f \o <<"\"">>) : u \in Units, f \in Follows}

InitEscape == InitText(EscapeTexts)
SpecEscape == InitEscape /\ [][NextText]_vars

HighSurrogates == 55296..56319
LowSurrogates == 56320..57343

\* The first code unit of a text of EscapeTexts, and whether a second \u
\* escape with a low surrogate follows it immediately.
FirstUnit(json) == parse_unicode(json, 4).value
PairFollows(json) ==
  /\ Ch(json, 8) = Asc["\\"]
  /\ Ch(json, 9) = Asc["u"]
  /\ parse_unicode(json, 10).value \in LowSurrogates

\* C15: a \u escape with a high surrogate is accepted when a \u escape with a
\* low surrogate follows it immediately and fails with "expected second
\* unicode surrogate part" otherwise; a low surrogate or a zero unit on its
\* own fails with "bad unicode character".
C15_SurrogatesArePaired ==
  last.op = "parse" =>
    /\ FirstUnit(last.text) \in HighSurrogates =>
         last.err = (IF PairFollows(last.text) THEN ""
                     ELSE "expected second unicode surrogate part")
    /\ (FirstUnit(last.text) \in LowSurrogates \/ FirstUnit(last.text) = 0) =>
         last.err = "bad unicode character"

\* ----------------------------------------------------------- number tokens
MaxNumLen == 3

NumberTexts == TextsUpTo({"-", "0", "1", "5", ".", "e"}, MaxNumLen)

InitNumber == InitText(NumberTexts)
SpecNumber == InitNumber /\ [][NextText]_vars

\* Where the integral part of the number token at the start of json begins.
IntPart(json) == IF Ch(json, 1) = Asc["-"] THEN 2 ELSE 1

\* C16: a text that begins a number token ('-' or a digit) is accepted only if
\* its integral part, after the optional '-', is the digit 0 not followed by a
\* digit or a digit run beginning with 1-9; a 0 followed by a digit fails with
\* "leading zeros are not allowed"; '0' and '0.5' are accepted.
C16_IntegralPartWellFormed ==
  LET json == last.text
      p == IntPart(last.text)
  IN  (last.op = "parse" /\ (Ch(json, 1) = Asc["-"] \/ isDigit(Ch(json, 1)))) =>
        /\ last.err = "" =>
             /\ isDigit(Ch(json, p))
             /\ Ch(json, p) = Asc["0"] => ~isDigit(Ch(json, p + 1))
        /\ (Ch(json, p) = Asc["0"] /\ isDigit(Ch(json, p + 1))) =>
             last.err = "leading zeros are not allowed"
        /\ json \in {Txt(<<"0">>), Txt(<<"0", ".", "5">>)} => last.err = ""

\* ------------------------------------------------------- UTF-8 of escapes
\* Every code unit written with the hex digits 0, 7, 8, D, F: the limits of
\* the 1-, 2- and 3-byte forms and both surrogate ranges are among them.
RECURSIVE UnitsOver(_, _)
UnitsOver(A, n) ==
  IF n = 0 THEN {<<>>}
  ELSE {Append(u, c) : u \in UnitsOver(A, n - 1), c \in A}

SingleUnits == UnitsOver({"0", "7", "8", "D", "F"}, 4)

\* The value of a hex digit character and of the four at json[p..p+3].
HexValue(c) ==
  IF c <= Asc["9"] THEN c - Asc["0"]
  ELSE IF c >= Asc["a"] THEN c - Asc["a"] + 10
  ELSE c - Asc["A"] + 10
UnitAt(json, p) ==
  4096 * HexValue(Ch(json, p)) + 256 * HexValue(Ch(json, p + 1))
  + 16 * HexValue(Ch(json, p + 2)) + HexValue(Ch(json, p + 3))

\* The first and second units of the pairs.
PairFirst ==
  {u \in SingleUnits : UnitAt(Txt(u), 1) \in HighSurrogates}
  \cup {<<"D", "8", "3", "D">>, <<"d", "b", "f", "f">>}
PairSecond ==
  { <<"D", "C", "0", "0">>, <<"D", "F", "F", "F">>, <<"D", "E", "0", "0">>,
    <<"d", "c", "a", "9">>, <<"D", "D", "5", "5">>, <<"D", "E", "A", "D">> }

\* The string tokens "\uXXXX" and "\uXXXX\uYYYY".
Utf8Texts ==
  {Txt(<<"\"", "\\", "u">> \o u \o <<"\"">>) : u \in SingleUnits}
  \cup {Txt(<<"\"", "\\", "u">> \o h \o <<"\\", "u">> \o l \o <<"\"">>) :
          h \in PairFirst, l \in PairSecond}

InitUtf8 == InitText(Utf8Texts)
SpecUtf8 == InitUtf8 /\ [][NextText]_vars

\* The code point a text of Utf8Texts stands for.
CodePoint(json) ==
  IF UnitAt(json, 4) \in HighSurrogates
  THEN 65536 + ((UnitAt(json, 4) % 1024) * 1024 + (UnitAt(json, 10) % 1024))
  ELSE UnitAt(json, 4)

\* The standard UTF-8 encoding of a code point.
StandardUtf8(c) ==
  IF c < 128 THEN <<c>>
  ELSE IF c < 2048 THEN <<192 + (c \div 64), 128 + (c % 64)>>
  ELSE IF c < 65536
  THEN <<224 + (c \div 4096), 128 + ((c \div 64) % 64), 128 + (c % 64)>>
  ELSE <<240 + (c \div 262144), 128 + ((c \div 4096) % 64),
         128 + ((c \div 64) % 64), 128 + (c % 64)>>

\* The String the Root holds after the parse.
ParsedString == heap[heap[R].m_firstChild].m_value

\* C17: the String parsed from an accepted "\uXXXX" or "\uXXXX\uYYYY" holds
\* exactly the standard UTF-8 bytes of the code point: the unit itself, or
\* 0x10000 + (((high & 0x3FF) << 10) | (low & 0x3FF)) for a pair.
C17_EscapeIsUtf8OfCodePoint ==
  (last.op = "parse" /\ last.err = "") =>
     /\ heap[R].m_firstChild # Null
     /\ heap[heap[R].m_firstChild].type = "String"
     /\ ParsedString = StandardUtf8(CodePoint(last.text))

\* 😀 was parsed into the four bytes F0 9F 98 80.
C17_Witness ==
  /\ last.op = "parse" /\ last.err = ""
  /\ last.text = Txt(<<"\"", "\\", "u", "D", "8", "3", "D", "\\", "u", "D", "E",
                       "0", "0", "\"">>)
  /\ ParsedString = <<240, 159, 152, 128>>

\* ------------------------------------------------------- child lists
ListTexts ==
  { Txt(<<"{", "}">>), Txt(<<"[", "]">>),
    Txt(<<"{", "\"", "a", "\"", ":", "1", ",", "\"", "b", "\"", ":", "2", "}">>),
    Txt(<<"[", "1", ",", "2", ",", "3", "]">>),
    Txt(<<"[", "1", ",", "{", "\"", "a", "\"", ":", "2", "}", "]">>),
    Txt(<<"{", "\"", "b", "\"", ":", "[", "1", ",", "2", "]", "}">>) }

InitList == InitFrom(ListTexts)

\* The client appends, inserts, replaces and removes children of the Objects
\* and Arrays of the document, with values made by the call or new values of
\* its own that are linked nowhere.
NextList ==
  \/ \E this \in Slots, name \in Names, type \in {"Number", "Array"} :
        ObjSetNew(this, name, type, IF type = "Number" THEN Dbl(FALSE, <<9>>) ELSE <<>>)
  \/ \E this \in Slots, position \in -1..2, where \in 0..2 :
        ArrPutNew(this, "Number", Dbl(FALSE, <<9>>), position, where)
  \/ \E this \in Slots, name \in Names, value \in Slots :
        value \in Owned(heap, this) /\ ObjLinkValue(this, name, value)
  \/ \E this \in Slots, value \in Slots, position \in -1..2, where \in 0..2 :
        value \in Owned(heap, this) /\ ArrLinkValue(this, value, position, where)
  \/ \E this \in Slots, name \in Names : ObjRemoveValue(this, name)
  \/ \E this \in Slots, position \in -1..2 : ArrRemoveValue(this, position)
  \/ \E v \in Nums : NewNumber(v)

SpecList == InitList /\ [][NextList]_vars

\* The child list of the container this is a consistent doubly linked list.
ConsistentList(h, this) ==
  LET w == Walk(h, this)
  IN  /\ \A i \in 1..Len(w) : w[i] # -1
      /\ Len(w) = h[this].m_length
      /\ h[this].m_length = 0 <=>
           (h[this].m_firstChild = Null /\ h[this].m_lastChild = Null)
      /\ h[this].m_firstChild = Null <=> h[this].m_lastChild = Null
      /\ w # <<>> =>
           /\ h[w[1]].m_prev = Null
           /\ w[Len(w)] = h[this].m_lastChild
           /\ h[h[this].m_lastChild].m_next = Null
      /\ \A i \in 1..Len(w) :
           /\ h[w[i]].m_parent = this
           /\ i > 1 => h[w[i]].m_prev = w[i - 1]
           /\ i < Len(w) => h[w[i]].m_next = w[i + 1]

\* C18: after every append, insert-before, replace and remove with new nodes
\* that are linked nowhere, the child list of every Object and Array is
\* consistent: firstChild has no previous and lastChild no next sibling, next
\* and previous are inverse along the chain, every child's parent is the
\* container, childCount is the length of the chain, and firstChild and
\* lastChild are null exactly when it is 0.
C18_ChildListConsistent ==
  \A this \in Objects(heap) \cup Arrays(heap) : ConsistentList(heap, this)

\* A node was inserted before the second of several children, a child
\* between two others was replaced, and a last child was removed.
C18_Witness ==
  /\ last.err = ""
  /\ \/ /\ last.op \in {"Array::insert", "Array::linkValueBefore"}
        /\ last.pos = 1 /\ prev[last.this].m_length >= 2
     \/ /\ last.op \in {"Array::set", "Array::linkValueAt"}
        /\ last.pos = 1 /\ prev[last.this].m_length = 3
     \/ /\ last.op = "Array::removeValue"
        /\ last.pos = prev[last.this].m_length - 1 /\ last.pos >= 1

\* ------------------------------------------------------------ the cursor
MaxTextLen == 3

CursorTexts ==
  TextsUpTo({"\"", "\\", "a", "{", "[", ",", ":", "1"}, MaxTextLen)

InitCursor == InitText(CursorTexts)
SpecCursor == InitCursor /\ [][NextText]_vars

\* C19: whatever the text, the cursor of the parser stops at the terminating
\* NUL at the latest: it never points behind the end of the buffer.
C19_CursorStaysInText ==
  last.op = "parse" => last.pos <= Len(last.text) + 1

\* ----------------------------------------------------- unterminated strings
\* The content of a string token the input ends in: no quote, no backslash.
OpenContents == TextsUpTo({"a", "1", " ", "{"}, MaxTextLen)

\* A text that ends inside a string value at the top, in an array or in an
\* object, or inside an object key.
UnterminatedTexts ==
  {Txt(<<"\"">>) \o c : c \in OpenContents}
  \cup {Txt(<<"[", "\"">>) \o c : c \in OpenContents}
  \cup {Txt(<<"{", "\"", "b", "\"", ":", "\"">>) \o c : c \in OpenContents}
  \cup {Txt(<<"{", "\"">>) \o c : c \in OpenContents}

InitString == InitText(UnterminatedTexts)
SpecString == InitString /\ [][NextText]_vars

\* C20: when the input ends before the closing '"' of a string token,
\* Root::parse fails and the tree holds no String made of the unterminated
\* content.
C20_UnterminatedStringFails ==
  last.op = "parse" =>
    /\ last.err # ""
    /\ \A n \in Slots : ~(heap[n].live /\ heap[n].type = "String")

====
